---- MODULE Spec2Model ----
(***************************************************************************)
(* A model of the car-racing game: the car control law and physics         *)
(* (entities/Car.js, components), the track grid (config/GameConfig.js),   *)
(* the engine loop (engine/Game.js), the entity container                  *)
(* (engine/Entity.js) and the bootstrap (main.js, scenes).                 *)
(*                                                                         *)
(* Numbers.  The program computes in IEEE doubles.  Here lengths, speeds,  *)
(* accelerations and forces are integers in thousandths (SCALE), times in  *)
(* the car part are whole milliseconds, a multiplier such as 0.95 is a     *)
(* percentage, and every product is rounded toward zero.  A rotation is    *)
(* the number of TURN_RATE steps away from the start angle PI/2; its       *)
(* cosine and sine come from a table in thousandths.                       *)
(***************************************************************************)
EXTENDS Integers, Sequences, FiniteSets, TLC

VARIABLES
    \* ---- one car entity (createCar) and the input manager it polls ----
    car,          \* Transform, CarPhysics and CarInput fields of the car
    player,       \* which player's car it is (1 or 2)
    keys,         \* InputManager.keys: the key codes that are down
    previousKeys, \* InputManager.previousKeys
    actionStates, \* InputManager.actionStates: the actions that are down
    lastTick,     \* what the latest scene tick did to the car
    ticks,        \* scene ticks so far
    events,       \* environment events so far (key events, frame-time changes)
    \* ---- the engine (Game) and the host's clock and frame callbacks ----
    now,           \* performance.now(), in thirds of a millisecond
    frameTime,     \* the timestamp of the latest host frame
    requested,     \* requestAnimationFrame callbacks waiting for the next frame
    frameQueue,    \* callbacks of the current frame that have not run yet
    isRunning,     \* Game.isRunning
    lastFrameTime, \* Game.lastFrameTime
    systems,       \* Game.systems, in list order
    sysActive,     \* the systems whose active flag is set
    currentScene,  \* whether Game.currentScene is set
    frameLog,      \* the calls the latest frame callback made, in order
    lastCallback,  \* what the latest frame callback saw and did
    calls,         \* calls of the engine's interface so far
    \* ---- entities and their components (Entity) ----
    components,    \* Entity.components of each entity: kind -> component
    owner,         \* the entity field of each component
    cleanups,      \* how often each component's cleanup hook has run
    lastOp,        \* the latest call on an entity and the state it found
    ops,           \* calls on entities so far
    \* ---- the bootstrap (main.js) and the game scene (GameScene) ----
    boot,             \* how far initGame has come
    sysChains,        \* per setupSystems call: how many of its imports resolved
    inputChains,      \* per setupInput call: how many of its imports resolved
    timers,           \* pending 100 ms timers of GameScene.init
    creating,         \* createEntities calls whose imports have not resolved
    sceneSystems,     \* GameScene.systems, in list order
    sceneInputManager, \* whether GameScene.inputManager is set
    inputEnabled,     \* InputManager.isEnabled
    sceneAssets,      \* GameScene.assets: "paths" is GameConfig.ASSETS.IMAGES
    sceneEntities,    \* GameScene.entities: the ids the scene added
    entities,         \* Game.entities: id -> entity
    nextEntityId,     \* Game.nextEntityId
    preload,          \* LoadingScene.startLoading: how far the asset loading is
    \* ---- the engine's entity registry under addEntity and removeEntity ----
    entityId,         \* Entity.id of each entity
    lastReg,          \* the latest addEntity or removeEntity call
    \* ---- a Physics component of its own, built with chosen arguments ----
    body,             \* an entity with a base Physics and a Transform
    lastUpdate,       \* the latest Physics.update call on it
    bodySteps,        \* calls on it so far
    \* ---- the track grid under lookups ----
    cell,             \* the column and row asked about
    lookup,           \* the latest getTrackTileAt or isObstacle call and its result
    \* ---- two entities under the scene's systems ----
    world,            \* the entities of Game.entities, by id
    worldSystems,     \* GameScene.systems
    worldLog,         \* the component methods the latest frame called, in order
    worldBefore,      \* the entities before the latest frame
    worldFrames,      \* frames so far
    worldOp,          \* the latest operation on the entities: "frame", "setActive"
    \* ---- the AssetManager and a LoadingScene ----
    assetManager,     \* assets, loadingPromises, loadedCount, totalCount
    imageLoads,       \* per key, the Image loads started so far and their state
    loadingScene,     \* LoadingScene: its state, the promises it awaits, onComplete calls
    lastLoad,         \* the latest direct loadImage call
    loadCalls,        \* direct loadImage calls so far
    \* ---- the TrackRenderSystem ----
    trackAssets,      \* the keys of the asset mapping it was built with, or Null
    tileImages,       \* its map from tile type to Image element
    trackDraws,       \* what its latest render drew, tile by tile
    \* ---- observers of the loop, the keyboard and the scene's teardown ----
    played,           \* the latest start() time and the delta times updated since
    pressWatch,       \* key presses no update has seen yet, and those it missed
    teardown          \* GameScene.cleanup: whether it ran, its import pending

carVars == <<car, player, keys, previousKeys, actionStates, lastTick, ticks, events>>

loopVars == <<now, frameTime, requested, frameQueue, isRunning, lastFrameTime,
              systems, sysActive, currentScene, frameLog, lastCallback, calls>>

entityVars == <<components, owner, cleanups, lastOp, ops>>

bootVars == <<boot, sysChains, inputChains, timers, creating, sceneSystems,
              sceneInputManager, inputEnabled, sceneAssets, sceneEntities,
              entities, nextEntityId, preload>>

regVars == <<entityId, lastReg>>

physVars == <<body, lastUpdate, bodySteps>>

gridVars == <<cell, lookup>>

worldVars == <<world, worldSystems, worldLog, worldBefore, worldFrames, worldOp>>

assetVars == <<assetManager, imageLoads, loadingScene, lastLoad, loadCalls>>

trackVars == <<trackAssets, tileImages, trackDraws>>

lateVars == <<played, pressWatch, teardown>>

moreVars == <<worldVars, assetVars, trackVars, lateVars>>

extraVars == <<regVars, physVars, gridVars, moreVars>>

vars == <<car, player, keys, previousKeys, actionStates, lastTick, ticks, events,
          now, frameTime, requested, frameQueue, isRunning, lastFrameTime,
          systems, sysActive, currentScene, frameLog, lastCallback, calls,
          components, owner, cleanups, lastOp, ops,
          boot, sysChains, inputChains, timers, creating, sceneSystems,
          sceneInputManager, inputEnabled, sceneAssets, sceneEntities,
          entities, nextEntityId, preload, entityId, lastReg,
          body, lastUpdate, bodySteps, cell, lookup,
          world, worldSystems, worldLog, worldBefore, worldFrames, worldOp,
          assetManager, imageLoads, loadingScene, lastLoad, loadCalls,
          trackAssets, tileImages, trackDraws,
          played, pressWatch, teardown>>

\* ------------------------------------------------------------------ bounds
MaxTicks  == 9    \* scene ticks explored
MaxEvents == 2    \* key events and frame-time changes explored
MaxTurn   == 3    \* TURN_RATE steps away from the start angle explored
DtFast    == 20   \* a short frame time, in ms
DtSlow    == 500  \* a long frame time, in ms (a stalled tab)
ExtraForce == 300 \* magnitude of a force applied from outside the control law
GapShort  == 20   \* a gap between two host frames below the frame interval
GapLong   == 70   \* a gap between two host frames above the frame interval
GapStall  == 310  \* a gap while the host delivers no frames (a hidden tab)
MaxNow    == 450  \* the clock stops here (thirds of a millisecond)
MaxCalls  == 4    \* calls of the engine's interface explored
MaxOps    == 4    \* calls on entities explored
MaxBodySteps == 2 \* calls on the lone Physics component explored
MaxThrowAt == 8    \* the calls of a frame one of which may throw
MaxLoads   == 2    \* Image loads of one key explored
MaxLoadCalls == 3  \* direct loadImage calls explored
MaxFrames  == 2    \* frames of the two entities explored
ColliderSize == 50 \* width and height of a Collider (pixels)
Margin     == 2    \* columns and rows beyond each edge of the grid asked about
MaxLap     == 110  \* ticks of the turning car explored
MaxDrive   == 8    \* ticks a key is held before the car is released
MaxCoast   == 90   \* ticks of the released car explored
Rounding   == 20   \* fixed-point error of a normalised direction (thousandths)
Epsilon    == 10   \* how near zero a speed counts as at rest (thousandths)

\* ----------------------------------------------------------------- helpers
\* null: a field that holds either nothing (<<>>) or one value (<<v>>)
Null == <<>>

SCALE == 1000

Abs(n) == IF n < 0 THEN -n ELSE n

Min(a, b) == IF a < b THEN a ELSE b

\* a / b for b > 0, rounded toward zero
TDiv(a, b) == IF a >= 0 THEN a \div b ELSE -((-a) \div b)

\* a multiplication that leaves the number as it was
PctKeep(n, pct) == n

\* n * pct / 100: multiplication by a decimal constant such as 0.95
Pct(n, pct) == TDiv(n * pct, 100)

RECURSIVE SqrtSearch(_, _, _)
SqrtSearch(n, lo, hi) ==
    IF lo >= hi THEN lo
    ELSE LET mid == (lo + hi + 1) \div 2
         IN IF mid * mid <= n THEN SqrtSearch(n, mid, hi)
                              ELSE SqrtSearch(n, lo, mid - 1)

\* Math.sqrt on a non-negative integer below 2^31, rounded down
Isqrt(n) == SqrtSearch(n, 0, 46340)

\* Math.sqrt(x*x + y*y) of two thousandths, in thousandths (computed in
\* hundredths so that the squares stay within the integer range)
Magnitude(x, y) ==
    LET cx == TDiv(x, 10)
        cy == TDiv(y, 10)
    IN Isqrt(cx * cx + cy * cy) * 10

\* ------------------------------------------------- GameConfig (GameConfig.js)
TILE_WIDTH  == 40
TILE_HEIGHT == 40
COLS == 20
ROWS == 15

ROAD == 0
WALL == 1
PLAYER_START == 2
GOAL == 3
TREE == 4
FLAG == 5

GROUND_SPEED_DECAY == 95   \* 0.95, percent
DRIVE_POWER == 100
REVERSE_POWER == 50
BRAKE_POWER == 92          \* 0.92, percent
ACTIVE_BRAKE_POWER == 85   \* 0.85, percent
MAX_SPEED == 200
COLLISION_BOUNCE == -10    \* -0.1, percent

TRACK_GRID ==
  << 1,1,1,1,1, 1,1,1,1,1, 1,1,1,1,1, 1,1,1,1,1,
     1,0,3,0,0, 0,0,0,0,0, 0,0,0,0,1, 4,0,0,0,1,
     1,0,3,0,0, 0,0,0,0,0, 0,0,0,0,1, 4,2,2,0,1,
     1,4,1,1,1, 1,1,1,1,1, 1,0,0,0,1, 1,0,0,0,1,
     1,1,1,0,0, 1,4,4,0,1, 0,0,0,0,0, 1,0,0,0,1,

     1,0,0,0,0, 0,0,0,0,5, 0,0,0,0,1, 1,0,0,0,1,
     1,0,0,0,0, 0,0,0,0,0, 0,0,0,0,1, 1,0,0,0,1,
     1,0,0,5,0, 0,0,0,0,0, 0,0,0,0,1, 1,0,0,0,1,
     1,0,0,1,1, 1,1,1,1,1, 1,1,1,1,1, 1,0,0,0,1,
     1,0,0,0,0, 1,0,0,0,0, 0,0,0,0,1, 1,0,0,0,1,

     1,0,0,0,0, 1,0,0,0,0, 0,0,0,0,0, 1,0,0,0,1,
     1,0,0,0,0, 5,0,0,0,5, 0,0,0,0,0, 5,0,0,0,1,
     1,0,0,0,0, 0,0,0,0,1, 0,0,0,0,0, 0,0,0,0,1,
     1,0,0,0,0, 0,0,0,0,1, 1,0,0,0,0, 0,0,0,0,1,
     1,1,1,1,1, 1,1,1,1,1, 1,1,1,1,1, 1,1,1,1,1 >>

\* getTrackTileAt answering ROAD beyond the edges of the grid
getTrackTileAtOpen(col, row) ==
    IF col < 0 \/ col >= COLS \/ row < 0 \/ row >= ROWS
    THEN ROAD
    ELSE TRACK_GRID[row * COLS + col + 1]

\* getTrackTileAt: TRACK_GRID is 0-based in the program, 1-based here
getTrackTileAt(col, row) ==
    IF col < 0 \/ col >= COLS \/ row < 0 \/ row >= ROWS
    THEN WALL
    ELSE TRACK_GRID[row * COLS + col + 1]

isObstacle(col, row) == getTrackTileAt(col, row) # ROAD

\* worldToGrid: Math.floor(x / TILE_WIDTH); \div rounds down like Math.floor
worldToGrid(x, y) ==
    [col |-> x \div (TILE_WIDTH * SCALE), row |-> y \div (TILE_HEIGHT * SCALE)]

gridToWorld(col, row) ==
    [x |-> (col * TILE_WIDTH + TILE_WIDTH \div 2) * SCALE,
     y |-> (row * TILE_HEIGHT + TILE_HEIGHT \div 2) * SCALE]

\* getPlayerStartPositions: the PLAYER_START cells in row-major order
StartCells ==
    {c \in (0 .. COLS - 1) \X (0 .. ROWS - 1) : getTrackTileAt(c[1], c[2]) = PLAYER_START}

CellsBefore(c) ==
    {d \in StartCells : d[2] < c[2] \/ (d[2] = c[2] /\ d[1] < c[1])}

getPlayerStartPositions ==
    [i \in 1 .. Cardinality(StartCells) |->
        LET c == CHOOSE d \in StartCells : Cardinality(CellsBefore(d)) = i - 1
        IN gridToWorld(c[1], c[2])]

\* --------------------------------------------------------------- trigonometry
\* 1000 * cos(PI/2 + 0.06 * k) and 1000 * sin(PI/2 + 0.06 * k), k in -30 .. 116
\* (GameConfig.CAR.START.ANGLE = PI/2, TURN_RATE = 0.06)
CosTable ==
  << 974, 986, 994, 999, 1000, 997, 991, 982, 969, 952,
     932, 909, 882, 852, 819, 783, 745, 703, 659, 613,
     565, 514, 462, 408, 352, 296, 238, 179, 120, 60,
     0, -60, -120, -179, -238, -296, -352, -408, -462, -514,
     -565, -613, -659, -703, -745, -783, -819, -852, -882, -909,
     -932, -952, -969, -982, -991, -997, -1000, -999, -994, -986,
     -974, -958, -940, -917, -892, -863, -831, -797, -759, -718,
     -675, -630, -582, -533, -481, -427, -372, -316, -259, -200,
     -141, -82, -22, 38, 98, 158, 217, 275, 332, 388,
     443, 495, 547, 596, 643, 688, 730, 770, 807, 841,
     872, 899, 924, 945, 963, 978, 988, 996, 999, 1000,
     996, 989, 979, 964, 947, 926, 901, 874, 843, 809,
     773, 733, 691, 647, 600, 551, 500, 447, 392, 336,
     279, 221, 162, 103, 43, -17, -77, -136, -196, -254,
     -312, -368, -423, -477, -528, -578, -626 >>

SinTable ==
  << -227, -168, -109, -49, 11, 71, 130, 190, 248, 306,
     362, 418, 471, 523, 574, 622, 667, 711, 752, 790,
     825, 858, 887, 913, 936, 955, 971, 984, 993, 998,
     1000, 998, 993, 984, 971, 955, 936, 913, 887, 858,
     825, 790, 752, 711, 667, 622, 574, 523, 471, 418,
     362, 306, 248, 190, 130, 71, 11, -49, -109, -168,
     -227, -285, -342, -398, -452, -505, -556, -605, -651, -696,
     -737, -777, -813, -846, -877, -904, -928, -949, -966, -980,
     -990, -997, -1000, -999, -995, -987, -976, -961, -943, -922,
     -897, -869, -837, -803, -766, -726, -683, -638, -591, -542,
     -490, -437, -382, -326, -269, -211, -152, -92, -32, 28,
     87, 147, 206, 264, 322, 378, 433, 486, 538, 587,
     635, 680, 723, 763, 800, 835, 866, 895, 920, 942,
     960, 975, 987, 995, 999, 1000, 997, 991, 981, 967,
     950, 930, 906, 879, 849, 816, 780 >>

\* k = 0 is entry 31 of the tables
Cos(k) == CosTable[k + 31]

Sin(k) == SinTable[k + 31]

\* ------------------------------------------------ InputManager (InputManager.js)
\* GameConfig.INPUT: the key codes of each player
PlayerKeys(p) ==
    IF p = 1 THEN [up |-> "KeyW", down |-> "KeyS", left |-> "KeyA", right |-> "KeyD"]
    ELSE [up |-> "ArrowUp", down |-> "ArrowDown", left |-> "ArrowLeft", right |-> "ArrowRight"]

\* createPlayerCars: the action names bound to each player's car
PlayerActions(p) ==
    IF p = 1 THEN [up |-> "player1Up", down |-> "player1Down",
                   left |-> "player1Left", right |-> "player1Right"]
    ELSE [up |-> "player2Up", down |-> "player2Down",
          left |-> "player2Left", right |-> "player2Right"]

Players == {1, 2}

Controls == {"up", "down", "left", "right"}

KeyCodes == {PlayerKeys(p)[c] : p \in Players, c \in Controls}

Actions == {PlayerActions(p)[c] : p \in Players, c \in Controls}

\* GameScene.setupInput: keyMappings after both mapActions calls
keyMappings ==
    [a \in Actions |->
        LET pc == CHOOSE pc \in Players \X Controls : PlayerActions(pc[1])[pc[2]] = a
        IN PlayerKeys(pc[1])[pc[2]]]

isKeyDown(ks, code) == code \in ks

\* InputManager.update: the action states it recomputes from the keys
UpdatedActionStates(ks) == {a \in Actions : isKeyDown(ks, keyMappings[a])}

\* InputManager.isKeyPressed on the keys ks and the previous keys prev
isKeyPressed(ks, prev, code) == code \in ks /\ code \notin prev

\* InputManager.isActionPressed
isActionPressed(ks, prev, a) == isKeyPressed(ks, prev, keyMappings[a])

isActionDown(as, a) == a \in as

\* ------------------------------------------- components (components/index.js)
\* Transform.update
TransformUpdate(t, dt) ==
    [t EXCEPT !.position =
        [x |-> t.position.x + TDiv(t.velocity.x * dt, 1000),
         y |-> t.position.y + TDiv(t.velocity.y * dt, 1000)]]

\* Transform.rotate by n TURN_RATE steps
rotate(t, n) == [t EXCEPT !.rotation = t.rotation + n]

\* Physics.applyForce
applyForce(p, forceX, forceY) ==
    IF p.isStatic THEN p
    ELSE LET magnitude == Magnitude(forceX, forceY)
         IN IF magnitude > 0
            THEN [p EXCEPT !.acceleration = p.acceleration + TDiv(magnitude, p.mass)]
            ELSE p

\* Physics.setDirection
setDirection(p, x, y) ==
    LET magnitude == Magnitude(x, y)
    IN IF magnitude > 0
       THEN [p EXCEPT !.direction = [x |-> TDiv(x * SCALE, magnitude),
                                     y |-> TDiv(y * SCALE, magnitude)]]
       ELSE p

\* the speed Physics.update computes before it clamps it
UnclampedSpeed(p, dt) ==
    Pct(p.speed + TDiv(p.acceleration * dt, 1000), p.friction)

\* Physics.update without the clamp to maxSpeed
PhysicsUpdateNoClamp(c, dt) ==
    IF c.physics.isStatic THEN c
    ELSE LET speed == UnclampedSpeed(c.physics, dt)
         IN [c EXCEPT !.physics.speed = speed,
                      !.physics.acceleration = 0,
                      !.transform.velocity =
                          [x |-> TDiv(c.physics.direction.x * speed, SCALE),
                           y |-> TDiv(c.physics.direction.y * speed, SCALE)]]

\* Physics.update (the car always has a Transform)
PhysicsUpdate(c, dt) ==
    IF c.physics.isStatic THEN c
    ELSE LET speed == Min(UnclampedSpeed(c.physics, dt), c.physics.maxSpeed)
         IN [c EXCEPT !.physics.speed = speed,
                      !.physics.acceleration = 0,
                      !.transform.velocity =
                          [x |-> TDiv(c.physics.direction.x * speed, SCALE),
                           y |-> TDiv(c.physics.direction.y * speed, SCALE)]]

\* ------------------------------------------------------- the car (Car.js)
\* distanceFromStart > 20 in CarPhysics.update; the squares are taken only
\* when both differences are at most 20, where they fit the integer range
FarFromStart(pos, start) ==
    LET dx == Abs(pos.x - start.x)
        dy == Abs(pos.y - start.y)
    IN \/ dx > 20 * SCALE
       \/ dy > 20 * SCALE
       \/ dx * dx + dy * dy > 400 * SCALE * SCALE

\* the cell CarPhysics.checkTrackCollision looks up
GridCell(c) == worldToGrid(c.transform.position.x, c.transform.position.y)

InObstacle(c) == isObstacle(GridCell(c).col, GridCell(c).row)

\* CarPhysics.checkTrackCollision; collided stands for its console.log line
checkTrackCollision(c) ==
    IF InObstacle(c)
    THEN [c EXCEPT !.transform.position =
                       IF c.physics.previousPosition # Null
                       THEN c.physics.previousPosition[1] ELSE @,
                   !.physics.speed = Pct(@, COLLISION_BOUNCE),
                   !.physics.collided = TRUE]
    ELSE c

\* CarPhysics.update up to its startup timer with the flag recomputed from
\* the distance in every call
CarPhysicsPrepareUnlatched(c, dt) ==
    LET pos   == c.transform.position
        start == IF c.physics.startPosition = Null THEN pos
                 ELSE c.physics.startPosition[1]
    IN [c EXCEPT !.physics.startPosition = <<start>>,
                 !.physics.hasMovedFromStart = FarFromStart(pos, start),
                 !.physics.previousPosition = <<pos>>,
                 !.physics.startupTime = @ + dt,
                 !.physics.collided = FALSE]

\* CarPhysics.update up to and including its startup timer
CarPhysicsPrepare(c, dt) ==
    LET pos   == c.transform.position
        start == IF c.physics.startPosition = Null THEN pos
                 ELSE c.physics.startPosition[1]
    IN [c EXCEPT !.physics.startPosition = <<start>>,
                 !.physics.hasMovedFromStart = @ \/ FarFromStart(pos, start),
                 !.physics.previousPosition = <<pos>>,
                 !.physics.startupTime = @ + dt,
                 !.physics.collided = FALSE]

\* the condition under which CarPhysics.update checks for a collision
CollisionEnabled(p) ==
    p.startupTime > p.startupGracePeriod /\ p.hasMovedFromStart

\* the end of CarPhysics.update with the two conditions joined by "or"
CollisionStepEither(moved) ==
    IF moved.physics.startupTime > moved.physics.startupGracePeriod
       \/ moved.physics.hasMovedFromStart
    THEN checkTrackCollision(moved)
    ELSE moved

\* the end of CarPhysics.update: the collision check behind its guard
CollisionStep(moved) ==
    IF CollisionEnabled(moved.physics)
    THEN checkTrackCollision(moved)
    ELSE moved

\* CarPhysics.update
CarPhysicsUpdate(c, dt) ==
    CollisionStep(PhysicsUpdate(CarPhysicsPrepare(c, dt), dt))

\* CarInput.applyInputToPhysics: the gas
ApplyGas(c) ==
    IF c.input.gasPressed
    THEN [c EXCEPT !.physics =
              applyForce(@, Cos(c.transform.rotation) * DRIVE_POWER,
                            Sin(c.transform.rotation) * DRIVE_POWER)]
    ELSE c

\* CarInput.applyInputToPhysics: braking and reverse
ApplyReverse(c) ==
    IF ~c.input.reversePressed THEN c
    ELSE IF c.physics.speed > 2 * SCALE
         THEN [c EXCEPT !.physics.speed = Pct(@, ACTIVE_BRAKE_POWER)]
         ELSE IF c.physics.speed > -1 * SCALE
              THEN [c EXCEPT !.physics =
                        applyForce(@, -(Cos(c.transform.rotation) * REVERSE_POWER),
                                      -(Sin(c.transform.rotation) * REVERSE_POWER))]
              ELSE c

\* CarInput.applyInputToPhysics: the extra braking when coasting
ApplyCoast(c) ==
    IF ~c.input.gasPressed /\ ~c.input.reversePressed
    THEN [c EXCEPT !.physics.speed = Pct(@, BRAKE_POWER)]
    ELSE c

\* CarInput.applyInputToPhysics: the throttle and brake part
ApplyDrive(c) == ApplyCoast(ApplyReverse(ApplyGas(c)))

\* CarInput.applyInputToPhysics: turning
ApplyTurn(c) ==
    [c EXCEPT !.transform =
         rotate(rotate(@, IF c.input.leftPressed THEN -1 ELSE 0),
                IF c.input.rightPressed THEN 1 ELSE 0)]

\* CarInput.applyInputToPhysics: the direction follows the rotation
ApplyDirection(c) ==
    [c EXCEPT !.physics =
         setDirection(@, Cos(c.transform.rotation), Sin(c.transform.rotation))]

\* applyInputToPhysics setting the direction before it turns the car
applyInputToPhysicsStale(c) == ApplyTurn(ApplyDirection(ApplyDrive(c)))

\* CarInput.applyInputToPhysics
applyInputToPhysics(c) == ApplyDirection(ApplyTurn(ApplyDrive(c)))

\* CarInput.update: the four flags read from the input manager
CarInputState(c, p, as) ==
    [c EXCEPT !.input = [gasPressed     |-> isActionDown(as, PlayerActions(p).up),
                         reversePressed |-> isActionDown(as, PlayerActions(p).down),
                         leftPressed    |-> isActionDown(as, PlayerActions(p).left),
                         rightPressed   |-> isActionDown(as, PlayerActions(p).right)]]

\* CarInput.update for the car of player p
CarInputUpdate(c, p, as) == applyInputToPhysics(CarInputState(c, p, as))

\* InputSystem.update on the car
InputSystemUpdate(c, p, as) == IF c.active THEN CarInputUpdate(c, p, as) ELSE c

\* MovementSystem.update on the car: transform.update after physics.update
TransformStep(c, dt) == [c EXCEPT !.transform = TransformUpdate(@, dt)]

\* MovementSystem.update on the car: Physics.update, then Transform.update
MovementSystemUpdate(c, dt) ==
    IF c.active THEN TransformStep(CarPhysicsUpdate(c, dt), dt) ELSE c

\* createCar: Transform(x, y, angle), CarPhysics(), CarInput(keyBindings)
createCar(startPosition) ==
    [transform |-> [position |-> startPosition,
                    rotation |-> 0,
                    velocity |-> [x |-> 0, y |-> 0]],
     physics   |-> [speed |-> 0,
                    maxSpeed |-> MAX_SPEED * SCALE,
                    acceleration |-> 0,
                    friction |-> GROUND_SPEED_DECAY,
                    direction |-> [x |-> SCALE, y |-> 0],
                    mass |-> 1,
                    isStatic |-> FALSE,
                    startupTime |-> 0,
                    startupGracePeriod |-> 2000,
                    hasMovedFromStart |-> FALSE,
                    startPosition |-> Null,
                    previousPosition |-> Null,
                    collided |-> FALSE],
     input     |-> [gasPressed |-> FALSE, reversePressed |-> FALSE,
                    leftPressed |-> FALSE, rightPressed |-> FALSE],
     active    |-> TRUE]

\* ------------------------------------------------------------ the car's run
DtSet == {DtFast, DtSlow}

ForceSet == {<<ExtraForce * SCALE, 0>>, <<0, -(ExtraForce * SCALE)>>}

NoTick ==
    [dt |-> 0, positionBefore |-> [x |-> 0, y |-> 0], speedBefore |-> 0,
     accelerationBefore |-> 0, held |-> {},
     unclampedSpeed |-> 0, baseSpeed |-> 0,
     enabled |-> FALSE, inObstacle |-> FALSE,
     physicsIn |-> [isStatic |-> FALSE, speed |-> 0, acceleration |-> 0,
                    direction |-> [x |-> 0, y |-> 0]],
     previousPositionBefore |-> [x |-> 0, y |-> 0], upRun |-> 0, bounced |-> FALSE,
     justDown |-> {}, pressed |-> {}, actionsPressed |-> {},
     rotationBefore |-> 0, rotationIn |-> 0]

CarInit ==
    /\ player \in Players
    /\ car = createCar(getPlayerStartPositions[player])
    /\ keys = {}
    /\ previousKeys = {}
    /\ actionStates = {}
    /\ lastTick = NoTick
    /\ ticks = 0
    /\ events = 0

\* InputManager.handleKeyDown
handleKeyDown(code) ==
    /\ events < MaxEvents
    /\ code \notin keys
    /\ keys' = keys \cup {code}
    /\ events' = events + 1
    /\ UNCHANGED <<car, player, previousKeys, actionStates, lastTick, ticks>>

\* InputManager.handleKeyUp
handleKeyUp(code) ==
    /\ events < MaxEvents
    /\ code \in keys
    /\ keys' = keys \ {code}
    /\ events' = events + 1
    /\ UNCHANGED <<car, player, previousKeys, actionStates, lastTick, ticks>>

\* a call of Physics.applyForce from outside the car's control law
ApplyForce(f) ==
    /\ events < MaxEvents
    /\ car' = [car EXCEPT !.physics = applyForce(@, f[1], f[2])]
    /\ events' = events + 1
    /\ UNCHANGED <<player, keys, previousKeys, actionStates, lastTick, ticks>>

\* what a tick of frame time dt records: c is the car it started from, c1 the
\* car after the input step, c3 the car after Physics.update; upRun counts the
\* ticks when every tick so far had only "up" held, the same dt and no outside
\* force; bounced tells whether any tick so far made a collision response;
\* justDown are the keys down now and up at the tick before, pressed and
\* actionsPressed what isKeyPressed and isActionPressed answer when the
\* systems poll them, after InputManager.update; rotationBefore and rotationIn
\* are the rotation before and after the input step
TickRecord(c, c1, c3, as, dt) ==
    [dt |-> dt,
     positionBefore |-> c.transform.position,
     speedBefore |-> c.physics.speed,
     accelerationBefore |-> c.physics.acceleration,
     held |-> {ctl \in Controls : isActionDown(as, PlayerActions(player)[ctl])},
     unclampedSpeed |-> UnclampedSpeed(c1.physics, dt),
     baseSpeed |-> c3.physics.speed,
     enabled |-> CollisionEnabled(c3.physics),
     inObstacle |-> InObstacle(c3),
     physicsIn |-> [isStatic |-> c1.physics.isStatic, speed |-> c1.physics.speed,
                    acceleration |-> c1.physics.acceleration,
                    direction |-> c1.physics.direction],
     previousPositionBefore |-> lastTick.positionBefore,
     upRun |-> IF /\ \A ctl \in Controls :
                        isActionDown(as, PlayerActions(player)[ctl]) <=> ctl = "up"
                  /\ c.physics.acceleration = 0
                  /\ ~c.physics.isStatic
                  /\ lastTick.upRun = ticks
                  /\ lastTick.dt \in {0, dt}
               THEN ticks + 1 ELSE 0,
     bounced |-> lastTick.bounced \/ (CollisionEnabled(c3.physics) /\ InObstacle(c3)),
     justDown |-> keys \ previousKeys,
     pressed |-> {code \in KeyCodes : isKeyPressed(keys, previousKeys', code)},
     actionsPressed |-> {a \in Actions : isActionPressed(keys, previousKeys', a)},
     rotationBefore |-> c.transform.rotation,
     rotationIn |-> c1.transform.rotation]

\* the systems of one tick on the car c1 that the input step left
RunSystems(c1, as, dt) ==
    /\ previousKeys' = keys
    /\ actionStates' = as
    /\ car' = MovementSystemUpdate(c1, dt)
    /\ lastTick' = TickRecord(car, c1, PhysicsUpdate(CarPhysicsPrepare(c1, dt), dt),
                              as, dt)

\* GameScene.update: InputManager.update, then InputSystem (priority 5) and
\* MovementSystem (priority 10) on the car
SceneTick(dt) ==
    /\ ticks < MaxTicks
    /\ \/ lastTick.dt \in {0, dt} /\ events' = events
       \/ lastTick.dt \notin {0, dt} /\ events < MaxEvents /\ events' = events + 1
    /\ Abs(ApplyTurn(CarInputState(car, player, UpdatedActionStates(keys)))
               .transform.rotation) <= MaxTurn
    /\ RunSystems(InputSystemUpdate(car, player, UpdatedActionStates(keys)),
                  UpdatedActionStates(keys), dt)
    /\ ticks' = ticks + 1
    /\ UNCHANGED <<player, keys>>

CarNext ==
    \/ \E code \in KeyCodes : handleKeyDown(code)
    \/ \E code \in KeyCodes : handleKeyUp(code)
    \/ \E f \in ForceSet : ApplyForce(f)
    \/ \E dt \in DtSet : SceneTick(dt)

\* the physics component is made static: physics.isStatic = true
MakeStatic ==
    /\ events < MaxEvents
    /\ ~car.physics.isStatic
    /\ car' = [car EXCEPT !.physics.isStatic = TRUE]
    /\ events' = events + 1
    /\ UNCHANGED <<player, keys, previousKeys, actionStates, lastTick, ticks>>

\* ------------------------------------------------------ the engine (Game.js)
\* Game.frameInterval = 1000 / 60 ms, in thirds of a millisecond
FrameInterval == 50

\* GameConfig.GAME_LOOP.MAX_DELTA_TIME, 0.1 s, in thirds of a millisecond
MAX_DELTA_TIME == 300

SystemKinds == {"InputSystem", "MovementSystem", "RenderSystem"}

\* the priority each system's constructor sets
Priority(s) ==
    CASE s = "InputSystem" -> 5
      [] s = "MovementSystem" -> 10
      [] s = "CollisionSystem" -> 20
      [] s = "RenderSystem" -> 100
      [] s = "TrackRenderSystem" -> -10

\* the systems that override System.update, and those that override render
OverridesUpdate(s) == s \in {"InputSystem", "MovementSystem", "CollisionSystem"}

OverridesRender(s) == s \in {"RenderSystem", "TrackRenderSystem"}

\* Game.update that also renders each system right after updating it
UpdateCallsWithRender ==
    <<[op |-> "update", on |-> "engine", work |-> TRUE]>>
    \o (IF currentScene THEN <<[op |-> "update", on |-> "scene", work |-> TRUE]>> ELSE <<>>)
    \o [i \in 1 .. 2 * Len(systems) |->
          [op |-> IF i % 2 = 1 THEN "update" ELSE "render",
           on |-> systems[(i + 1) \div 2],
           work |-> systems[(i + 1) \div 2] \in sysActive]]

\* Game.update: the calls it makes; a system works only if it is active
UpdateCalls ==
    <<[op |-> "update", on |-> "engine", work |-> TRUE]>>
    \o (IF currentScene THEN <<[op |-> "update", on |-> "scene", work |-> TRUE]>> ELSE <<>>)
    \o [i \in 1 .. Len(systems) |->
          [op |-> "update", on |-> systems[i],
           work |-> systems[i] \in sysActive /\ OverridesUpdate(systems[i])]]

\* Game.render: the calls it makes
RenderCalls ==
    <<[op |-> "render", on |-> "engine", work |-> TRUE],
      [op |-> "clearRect", on |-> "canvas", work |-> TRUE]>>
    \o (IF currentScene THEN <<[op |-> "render", on |-> "scene", work |-> TRUE]>> ELSE <<>>)
    \o [i \in 1 .. Len(systems) |->
          [op |-> "render", on |-> systems[i],
           work |-> systems[i] \in sysActive /\ OverridesRender(systems[i])]]

NoCallback == [seen |-> FALSE, running |-> FALSE, stamp |-> 0, gap |-> 0, deltaTime |-> 0]

LoopInit ==
    /\ now = 0
    /\ frameTime = 0
    /\ requested = 0
    /\ frameQueue = 0
    /\ isRunning = FALSE
    /\ lastFrameTime = 0
    /\ systems = <<>>
    /\ sysActive = {}
    /\ currentScene = FALSE
    /\ frameLog = <<>>
    /\ lastCallback = NoCallback
    /\ calls = 0

\* the host begins a frame, gap after the one before: the callbacks requested
\* so far will run with the frame's timestamp
BeginFrame(gap) ==
    /\ frameQueue = 0
    /\ requested > 0
    /\ now + gap <= MaxNow
    /\ now' = now + gap
    /\ frameTime' = now + gap
    /\ frameQueue' = requested
    /\ requested' = 0
    /\ UNCHANGED <<isRunning, lastFrameTime, systems, sysActive,
                   currentScene, frameLog, lastCallback, calls>>

\* Game.start
start ==
    /\ frameQueue = 0
    /\ calls < MaxCalls
    /\ ~isRunning
    /\ isRunning' = TRUE
    /\ lastFrameTime' = now
    /\ requested' = requested + 1
    /\ calls' = calls + 1
    /\ UNCHANGED <<now, frameTime, frameQueue, systems, sysActive,
                   currentScene, frameLog, lastCallback>>

\* Game.stop
stop ==
    /\ frameQueue = 0
    /\ calls < MaxCalls
    /\ isRunning
    /\ isRunning' = FALSE
    /\ calls' = calls + 1
    /\ UNCHANGED <<now, frameTime, requested, frameQueue, lastFrameTime, systems,
                   sysActive, currentScene, frameLog, lastCallback>>

\* Game.gameLoop that never returns early
HaltedNever(running) == FALSE

\* whether Game.gameLoop returns at once: the running flag is off
Halted(running) == ~running

\* Game.gameLoop that processes every callback
FrameDueAlways(d) == TRUE

\* whether Game.gameLoop processes a frame whose deltaTime is d
FrameDue(d) == d >= FrameInterval

\* the timestamp of the callback before this one (the start time if none)
PreviousStamp ==
    IF lastCallback.seen /\ lastCallback.stamp >= lastFrameTime
    THEN lastCallback.stamp ELSE lastFrameTime

\* Game.gameLoop(currentTime), run as one callback of the current frame
gameLoop ==
    /\ frameQueue > 0
    /\ frameQueue' = frameQueue - 1
    /\ LET currentTime == frameTime
           deltaTime == currentTime - lastFrameTime
       IN /\ lastCallback' = [seen |-> TRUE, running |-> isRunning,
                              stamp |-> currentTime,
                              gap |-> currentTime - PreviousStamp,
                              deltaTime |-> deltaTime]
          /\ IF Halted(isRunning)
             THEN /\ frameLog' = <<>>
                  /\ UNCHANGED <<lastFrameTime, requested>>
             ELSE /\ IF FrameDue(deltaTime)
                     THEN /\ frameLog' = UpdateCalls \o RenderCalls
                          /\ lastFrameTime' = currentTime - (deltaTime % FrameInterval)
                     ELSE /\ frameLog' = <<>>
                          /\ UNCHANGED lastFrameTime
                  /\ requested' = requested + 1
    /\ UNCHANGED <<now, frameTime, isRunning, systems, sysActive, currentScene, calls>>

\* Game.gameLoop(currentTime) whose n-th call, an update or a render of the
\* scene or of a working system, throws: the exception leaves gameLoop before
\* it sets lastFrameTime and before it requests the next frame
gameLoopThrows(n) ==
    /\ frameQueue > 0
    /\ ~Halted(isRunning)
    /\ FrameDue(frameTime - lastFrameTime)
    /\ n \in 1 .. Len(UpdateCalls \o RenderCalls)
    /\ (UpdateCalls \o RenderCalls)[n].on \notin {"engine", "canvas"}
    /\ (UpdateCalls \o RenderCalls)[n].work
    /\ frameQueue' = frameQueue - 1
    /\ frameLog' = SubSeq(UpdateCalls \o RenderCalls, 1, n)
    /\ lastCallback' = [seen |-> TRUE, running |-> isRunning,
                        stamp |-> frameTime,
                        gap |-> frameTime - PreviousStamp,
                        deltaTime |-> frameTime - lastFrameTime]
    /\ UNCHANGED <<now, frameTime, requested, isRunning, lastFrameTime, systems,
                   sysActive, currentScene, calls>>

\* Game.addSystem
addSystem(s) ==
    /\ frameQueue = 0
    /\ calls < MaxCalls
    /\ \A i \in 1 .. Len(systems) : systems[i] # s
    /\ systems' = Append(systems, s)
    /\ sysActive' = sysActive \cup {s}
    /\ calls' = calls + 1
    /\ UNCHANGED <<now, frameTime, requested, frameQueue, isRunning, lastFrameTime,
                   currentScene, frameLog, lastCallback>>

\* System.setActive
setActive(s, b) ==
    /\ frameQueue = 0
    /\ calls < MaxCalls
    /\ \E i \in 1 .. Len(systems) : systems[i] = s
    /\ (s \in sysActive) # b
    /\ sysActive' = IF b THEN sysActive \cup {s} ELSE sysActive \ {s}
    /\ calls' = calls + 1
    /\ UNCHANGED <<now, frameTime, requested, frameQueue, isRunning, lastFrameTime,
                   systems, currentScene, frameLog, lastCallback>>

\* Game.setScene with a scene whose init and cleanup leave the engine alone
setScene ==
    /\ frameQueue = 0
    /\ calls < MaxCalls
    /\ ~currentScene
    /\ currentScene' = TRUE
    /\ calls' = calls + 1
    /\ UNCHANGED <<now, frameTime, requested, frameQueue, isRunning, lastFrameTime,
                   systems, sysActive, frameLog, lastCallback>>

Gaps == {GapShort, GapLong, GapStall}

LoopNext ==
    \/ \E gap \in Gaps : BeginFrame(gap)
    \/ start
    \/ stop
    \/ gameLoop
    \/ setScene
    \/ \E s \in SystemKinds : addSystem(s)
    \/ \E s \in SystemKinds, b \in BOOLEAN : setActive(s, b)

\* ------------------------------------------------- entities (Entity.js)
EntityIds == {"e1", "e2"}

Kinds == {"Transform", "Physics"}

Comps == {"c1", "c2", "c3"}

\* no component under a kind, no entity in a component's entity field
Absent == "absent"

\* Entity.hasComponent
hasComponent(cs, e, k) == cs[e][k] # Absent

\* Entity.getComponent
getComponent(cs, e, k) == cs[e][k]

\* the state Entity.addComponent leaves when it stores nothing
addComponentNoStore(st, e, k, c) ==
    [st EXCEPT !.owner[c] = IF @ = Absent THEN e ELSE @]

\* the state Entity.addComponent(k, c) leaves
addComponent(st, e, k, c) ==
    [st EXCEPT !.components[e][k] = c,
               !.owner[c] = IF @ = Absent THEN e ELSE @]

\* the state Entity.removeComponent leaves when it skips the delete
removeComponentNoDelete(st, e, k) ==
    LET c == st.components[e][k]
    IN IF c # Absent THEN [st EXCEPT !.cleanups[c] = @ + 1] ELSE st

\* the state Entity.removeComponent(k) leaves
removeComponent(st, e, k) ==
    LET c == st.components[e][k]
    IN IF c # Absent
       THEN [st EXCEPT !.cleanups[c] = @ + 1,
                       !.components[e][k] = Absent]
       ELSE st

EntityState == [components |-> components, owner |-> owner, cleanups |-> cleanups]

EntityInit ==
    /\ components = [e \in EntityIds |-> [k \in Kinds |-> Absent]]
    /\ owner = [c \in Comps |-> Absent]
    /\ cleanups = [c \in Comps |-> 0]
    /\ lastOp = [op |-> "none", entity |-> "e1", kind |-> "Transform",
                 component |-> Absent, before |-> EntityState]
    /\ ops = 0

\* a call of entity.addComponent(k, c)
AddComponent(e, k, c) ==
    /\ ops < MaxOps
    /\ LET st == addComponent(EntityState, e, k, c)
       IN /\ components' = st.components
          /\ owner' = st.owner
          /\ cleanups' = st.cleanups
    /\ lastOp' = [op |-> "addComponent", entity |-> e, kind |-> k,
                  component |-> c, before |-> EntityState]
    /\ ops' = ops + 1

\* a call of entity.removeComponent(k)
RemoveComponent(e, k) ==
    /\ ops < MaxOps
    /\ LET st == removeComponent(EntityState, e, k)
       IN /\ components' = st.components
          /\ owner' = st.owner
          /\ cleanups' = st.cleanups
    /\ lastOp' = [op |-> "removeComponent", entity |-> e, kind |-> k,
                  component |-> Absent, before |-> EntityState]
    /\ ops' = ops + 1

EntityNext ==
    \/ \E e \in EntityIds, k \in Kinds, c \in Comps : AddComponent(e, k, c)
    \/ \E e \in EntityIds, k \in Kinds : RemoveComponent(e, k)

\* --------------------------------------- the bootstrap (main.js, GameScene)
\* GameConfig.ASSETS.IMAGES: the asset keys that have a path
AssetKeys == {"PLAYER1_CAR", "PLAYER2_CAR", "TRACK_ROAD", "TRACK_WALL",
              "TRACK_GOAL", "TRACK_FLAG", "TRACK_TREE"}

\* createPlayerCars(assets, startPositions): the cars it returns, in order
createPlayerCars(assetKeys, startPositions) ==
    (IF Len(startPositions) >= 1 /\ "PLAYER1_CAR" \in assetKeys
     THEN <<[tags |-> {"car", "player", "player1"}, position |-> startPositions[1]]>>
     ELSE <<>>)
    \o (IF Len(startPositions) >= 2 /\ "PLAYER2_CAR" \in assetKeys
        THEN <<[tags |-> {"car", "player", "player2"}, position |-> startPositions[2]]>>
        ELSE <<>>)

\* Game.addEntity for each entity of a list, in order: the collection, the next
\* id and the ids handed out
RECURSIVE addEntities(_, _, _, _)
addEntities(ents, nextId, ids, list) ==
    IF list = <<>>
    THEN [entities |-> ents, nextEntityId |-> nextId, ids |-> ids]
    ELSE addEntities([i \in DOMAIN ents \cup {nextId} |->
                         IF i = nextId THEN Head(list) ELSE ents[i]],
                     nextId + 1, Append(ids, nextId), Tail(list))

\* Array.prototype.sort((a, b) => a.priority - b.priority): a stable sort
RECURSIVE InsertByPriority(_, _)
InsertByPriority(sorted, s) ==
    IF sorted = <<>> THEN <<s>>
    ELSE IF Priority(s) < Priority(Head(sorted))
         THEN <<s>> \o sorted
         ELSE <<Head(sorted)>> \o InsertByPriority(Tail(sorted), s)

RECURSIVE SortByPriority(_)
SortByPriority(list) ==
    IF list = <<>> THEN <<>>
    ELSE InsertByPriority(SortByPriority(SubSeq(list, 1, Len(list) - 1)),
                          list[Len(list)])

\* GameScene.init(game, assets): setupSystems, setupInput and the 100 ms timer
\* on the scene state st
GameSceneInit(st, assets) ==
    [st EXCEPT !.sceneAssets = assets,
               !.sysChains = Append(@, 0),
               !.inputChains = Append(@, 0),
               !.timers = @ + 1]

BootInit ==
    /\ boot = "unloaded"
    /\ sysChains = <<>>
    /\ inputChains = <<>>
    /\ timers = 0
    /\ creating = 0
    /\ sceneSystems = <<>>
    /\ sceneInputManager = FALSE
    /\ inputEnabled = FALSE
    /\ sceneAssets = "unset"
    /\ sceneEntities = <<>>
    /\ entities = <<>>
    /\ nextEntityId = 0
    /\ preload = "idle"

\* initGame up to "await game.init()"; without the canvas it shows an error
initGame(canvasFound) ==
    /\ boot = "unloaded"
    /\ boot' = IF canvasFound THEN "initializing" ELSE "failed"
    /\ UNCHANGED <<sysChains, inputChains, timers, creating, sceneSystems,
                   sceneInputManager, inputEnabled, sceneAssets, sceneEntities,
                   entities, nextEntityId, preload>>
    /\ UNCHANGED loopVars

\* initGame after the await: onAssetsLoaded(GameConfig.ASSETS.IMAGES), that is
\* gameScene.init(game, assets), game.setScene(gameScene) (which calls
\* gameScene.init(game) again) and game.start()
onAssetsLoaded ==
    /\ boot = "initializing"
    /\ LET st0 == [sceneAssets |-> sceneAssets, sysChains |-> sysChains,
                   inputChains |-> inputChains, timers |-> timers]
           st1 == GameSceneInit(st0, "paths")
           st2 == GameSceneInit(st1, "undefined")
       IN /\ sceneAssets' = st2.sceneAssets
          /\ sysChains' = st2.sysChains
          /\ inputChains' = st2.inputChains
          /\ timers' = st2.timers
    /\ currentScene' = TRUE
    /\ isRunning' = TRUE
    /\ lastFrameTime' = now
    /\ requested' = requested + 1
    /\ boot' = "started"
    /\ UNCHANGED <<creating, sceneSystems, sceneInputManager, inputEnabled,
                   sceneEntities, entities, nextEntityId, preload>>
    /\ UNCHANGED <<now, frameTime, frameQueue, systems, sysActive, frameLog,
                   lastCallback, calls>>

\* GameScene.setupSystems: the next import of its i-th call resolves.  The
\* second one assigns the scene's systems, the fourth adds the track system
\* and sorts.
systemsImportResolved(i) ==
    /\ i \in DOMAIN sysChains
    /\ sysChains[i] < 4
    /\ sysChains' = [sysChains EXCEPT ![i] = @ + 1]
    /\ sceneSystems' =
         CASE sysChains[i] = 1 -> <<"InputSystem", "MovementSystem", "RenderSystem">>
           [] sysChains[i] = 3 -> SortByPriority(<<"TrackRenderSystem">> \o sceneSystems)
           [] OTHER -> sceneSystems
    /\ UNCHANGED <<boot, inputChains, timers, creating, sceneInputManager,
                   inputEnabled, sceneAssets, sceneEntities, entities,
                   nextEntityId, preload>>
    /\ UNCHANGED loopVars

\* GameScene.setupInput: the next import of its i-th call resolves.  The first
\* one stores the input manager, the second initialises it and maps the actions.
inputImportResolved(i) ==
    /\ i \in DOMAIN inputChains
    /\ inputChains[i] < 2
    /\ inputChains' = [inputChains EXCEPT ![i] = @ + 1]
    /\ sceneInputManager' = TRUE
    /\ inputEnabled' = (inputEnabled \/ inputChains[i] = 1)
    /\ UNCHANGED <<boot, sysChains, timers, creating, sceneSystems, sceneAssets,
                   sceneEntities, entities, nextEntityId, preload>>
    /\ UNCHANGED loopVars

\* a 100 ms timer of GameScene.init fires: createEntities starts its imports
timerFires ==
    /\ timers > 0
    /\ timers' = timers - 1
    /\ creating' = creating + 1
    /\ UNCHANGED <<boot, sysChains, inputChains, sceneSystems, sceneInputManager,
                   inputEnabled, sceneAssets, sceneEntities, entities,
                   nextEntityId, preload>>
    /\ UNCHANGED loopVars

\* GameScene.createEntities: its imports resolved, the cars are created and
\* added to the game
createEntities ==
    /\ creating > 0
    /\ creating' = creating - 1
    /\ LET cars == createPlayerCars(AssetKeys, getPlayerStartPositions)
           added == addEntities(entities, nextEntityId, <<>>, cars)
       IN /\ entities' = added.entities
          /\ nextEntityId' = added.nextEntityId
          /\ sceneEntities' = sceneEntities \o added.ids
    /\ UNCHANGED <<boot, sysChains, inputChains, timers, sceneSystems,
                   sceneInputManager, inputEnabled, sceneAssets, preload>>
    /\ UNCHANGED loopVars

BootNext ==
    \/ \E canvasFound \in BOOLEAN : initGame(canvasFound)
    \/ onAssetsLoaded
    \/ \E i \in 1 .. 2 : systemsImportResolved(i)
    \/ \E i \in 1 .. 2 : inputImportResolved(i)
    \/ timerFires
    \/ createEntities

\* ------------------------------------- the entity registry (Game.js, Entity.js)
\* the registry fields of the engine
Registry == [entities |-> entities, nextEntityId |-> nextEntityId]

\* Game.addEntity that hands out the number of registered entities as the id
addEntityByCount(st, entity) ==
    [entities |-> [i \in DOMAIN st.entities \cup {Cardinality(DOMAIN st.entities)} |->
                      IF i = Cardinality(DOMAIN st.entities) THEN entity
                      ELSE st.entities[i]],
     nextEntityId |-> Cardinality(DOMAIN st.entities) + 1]

\* Game.addEntity(entity) on the registry st; the id it returns is st.nextEntityId
addEntity(st, entity) ==
    [entities |-> [i \in DOMAIN st.entities \cup {st.nextEntityId} |->
                      IF i = st.nextEntityId THEN entity ELSE st.entities[i]],
     nextEntityId |-> st.nextEntityId + 1]

\* Game.removeEntity(entityId) on the registry st
removeEntity(st, id) ==
    IF id \in DOMAIN st.entities
    THEN [entities |-> [i \in DOMAIN st.entities \ {id} |-> st.entities[i]],
          nextEntityId |-> st.nextEntityId]
    ELSE st

NoReg ==
    [op |-> "none", id |-> 0, entity |-> "none", present |-> FALSE,
     issuedBefore |-> {}, issued |-> {},
     before |-> [entities |-> <<>>, nextEntityId |-> 0],
     beforeEntities |-> [components |-> <<>>, owner |-> <<>>, cleanups |-> <<>>]]

RegInit ==
    /\ entityId = [e \in EntityIds |-> Null]
    /\ lastReg = NoReg

\* a call of game.addEntity(e)
AddEntity(e) ==
    /\ ops < MaxOps
    /\ entities' = addEntity(Registry, e).entities
    /\ nextEntityId' = addEntity(Registry, e).nextEntityId
    /\ entityId' = [entityId EXCEPT ![e] = <<nextEntityId' - 1>>]
    /\ lastReg' = [op |-> "addEntity", id |-> nextEntityId' - 1, entity |-> e,
                   present |-> FALSE,
                   issuedBefore |-> lastReg.issued,
                   issued |-> lastReg.issued \cup {nextEntityId' - 1},
                   before |-> Registry, beforeEntities |-> EntityState]
    /\ ops' = ops + 1
    /\ UNCHANGED <<components, owner, cleanups, lastOp>>

\* a call of game.removeEntity(id)
RemoveEntity(id) ==
    /\ ops < MaxOps
    /\ entities' = removeEntity(Registry, id).entities
    /\ nextEntityId' = removeEntity(Registry, id).nextEntityId
    /\ lastReg' = [op |-> "removeEntity", id |-> id,
                   entity |-> IF id \in DOMAIN entities THEN entities[id] ELSE "none",
                   present |-> id \in DOMAIN entities,
                   issuedBefore |-> lastReg.issued, issued |-> lastReg.issued,
                   before |-> Registry, beforeEntities |-> EntityState]
    /\ ops' = ops + 1
    /\ UNCHANGED <<components, owner, cleanups, lastOp, entityId>>

RegistryNext ==
    \/ \E e \in EntityIds : AddEntity(e)
    \/ \E id \in 0 .. MaxOps : RemoveEntity(id)
    \/ \E e \in EntityIds, k \in Kinds, c \in Comps :
           /\ AddComponent(e, k, c)
           /\ lastReg' = [lastReg EXCEPT !.op = "none"]
           /\ UNCHANGED <<entities, nextEntityId, entityId>>

\* ------------------------------------------- GameScene.cleanup (GameScene)
\* GameScene.cleanup: game.removeEntity for each id of this.entities, in order
RECURSIVE removeEntities(_, _)
removeEntities(st, ids) ==
    IF ids = <<>> THEN st
    ELSE removeEntities(removeEntity(st, Head(ids)), Tail(ids))

\* GameScene.cleanup(): the scene's entities leave the game, the list is
\* emptied and the import of the input manager is started
sceneCleanup ==
    /\ boot = "started"
    /\ ~teardown.done
    /\ entities' = removeEntities(Registry, sceneEntities).entities
    /\ sceneEntities' = <<>>
    /\ teardown' = [done |-> TRUE, imports |-> teardown.imports + 1]
    /\ UNCHANGED <<boot, sysChains, inputChains, timers, creating, sceneSystems,
                   sceneInputManager, inputEnabled, sceneAssets, nextEntityId,
                   preload>>
    /\ UNCHANGED loopVars

\* the import of GameScene.cleanup resolves: inputManager.cleanup()
cleanupImportResolved ==
    /\ teardown.imports > 0
    /\ teardown' = [teardown EXCEPT !.imports = @ - 1]
    /\ inputEnabled' = FALSE
    /\ UNCHANGED <<boot, sysChains, inputChains, timers, creating, sceneSystems,
                   sceneInputManager, sceneAssets, sceneEntities, entities,
                   nextEntityId, preload>>
    /\ UNCHANGED loopVars

\* the page load with the scene's cleanup among its events
CleanupNext ==
    \/ BootNext /\ UNCHANGED teardown
    \/ sceneCleanup
    \/ cleanupImportResolved

\* --------------------------------- a Physics component alone (components)
\* new Physics(speed, maxSpeed, acceleration, friction) on an entity with a
\* Transform; isStatic is the public field
createBody(speed, maxSpeed, acceleration, friction, isStatic) ==
    [transform |-> [position |-> [x |-> 0, y |-> 0],
                    rotation |-> 0,
                    velocity |-> [x |-> 0, y |-> 0]],
     physics   |-> [speed |-> speed,
                    maxSpeed |-> maxSpeed,
                    acceleration |-> acceleration,
                    friction |-> friction,
                    direction |-> [x |-> SCALE, y |-> 0],
                    mass |-> 1,
                    isStatic |-> isStatic]]

\* the constructor arguments explored, in thousandths and percent
BodySpeeds == {-20 * SCALE, 0, 10 * SCALE, 150 * SCALE}

BodyMaxSpeeds == {100 * SCALE, 200 * SCALE}

BodyAccelerations == {0, 100 * SCALE, 300 * SCALE}

BodyFrictions == {90, 95}

NoUpdate == [done |-> FALSE, dt |-> 0, before |-> createBody(0, 0, 0, 0, FALSE)]

BodyInit ==
    /\ body \in {createBody(s, ms, a, f, st) :
                    s \in BodySpeeds, ms \in BodyMaxSpeeds, a \in BodyAccelerations,
                    f \in BodyFrictions, st \in BOOLEAN}
    /\ lastUpdate = NoUpdate
    /\ bodySteps = 0

\* a call of physics.update(dt)
BodyUpdate(dt) ==
    /\ bodySteps < MaxBodySteps
    /\ body' = PhysicsUpdate(body, dt)
    /\ lastUpdate' = [done |-> TRUE, dt |-> dt, before |-> body]
    /\ bodySteps' = bodySteps + 1

\* a call of physics.applyForce(f)
BodyApplyForce(f) ==
    /\ bodySteps < MaxBodySteps
    /\ body' = [body EXCEPT !.physics = applyForce(@, f[1], f[2])]
    /\ lastUpdate' = [lastUpdate EXCEPT !.done = FALSE]
    /\ bodySteps' = bodySteps + 1

BodyNext ==
    \/ \E dt \in DtSet : BodyUpdate(dt)
    \/ \E f \in ForceSet : BodyApplyForce(f)

\* ------------------------------------------------------- the coasting car
\* n ticks of InputSystem then MovementSystem on the car c of player p with
\* the keys ks held and frame time dt
RECURSIVE Driven(_, _, _, _, _)
Driven(c, p, ks, n, dt) ==
    IF n = 0 THEN c
    ELSE Driven(MovementSystemUpdate(
                    InputSystemUpdate(c, p, UpdatedActionStates(ks)), dt),
                p, ks, n - 1, dt)

\* the car after its player drove it forward or backward for some ticks and
\* has just released the key
CoastInit ==
    /\ player \in Players
    /\ \E ctl \in {"up", "down"}, n \in 0 .. MaxDrive, dt \in DtSet :
          /\ car = Driven(createCar(getPlayerStartPositions[player]), player,
                          {PlayerKeys(player)[ctl]}, n, dt)
          /\ previousKeys = IF n = 0 THEN {} ELSE {PlayerKeys(player)[ctl]}
          /\ actionStates = UpdatedActionStates(previousKeys)
    /\ keys = {}
    /\ lastTick = NoTick
    /\ ticks = 0
    /\ events = 0

\* GameScene.update with no key held, at the frame time of the ticks before
CoastTick(dt) ==
    /\ ticks < MaxCoast
    /\ keys = {}
    /\ lastTick.dt \in {0, dt}
    /\ RunSystems(InputSystemUpdate(car, player, UpdatedActionStates(keys)),
                  UpdatedActionStates(keys), dt)
    /\ ticks' = ticks + 1
    /\ UNCHANGED <<player, keys, events>>

CoastNext == \E dt \in DtSet : CoastTick(dt)

\* ------------------------------------------------------- the turning car
\* the car whose player holds "up" and "right" from before the first frame
LapInit ==
    /\ player \in Players
    /\ car = createCar(getPlayerStartPositions[player])
    /\ keys = {PlayerKeys(player).up, PlayerKeys(player).right}
    /\ previousKeys = {}
    /\ actionStates = {}
    /\ lastTick = NoTick
    /\ ticks = 0
    /\ events = 0

\* GameScene.update with the two keys held, at the frame time of the ticks
\* before
LapTick(dt) ==
    /\ ticks < MaxLap
    /\ lastTick.dt \in {0, dt}
    /\ RunSystems(InputSystemUpdate(car, player, UpdatedActionStates(keys)),
                  UpdatedActionStates(keys), dt)
    /\ ticks' = ticks + 1
    /\ UNCHANGED <<player, keys, events>>

LapNext == \E dt \in DtSet : LapTick(dt)

\* ------------------------------------------------------- the track grid
NoLookup == [op |-> "none", tile |-> -1, obstacle |-> FALSE]

\* the columns and rows asked about: the grid and a margin around it
GridInit ==
    /\ cell \in [col : -Margin .. COLS - 1 + Margin,
                 row : -Margin .. ROWS - 1 + Margin]
    /\ lookup = NoLookup

\* a call getTrackTileAt(cell.col, cell.row)
GetTrackTileAt ==
    /\ lookup' = [op |-> "getTrackTileAt",
                  tile |-> getTrackTileAt(cell.col, cell.row),
                  obstacle |-> FALSE]
    /\ UNCHANGED cell

\* a call isObstacle(cell.col, cell.row)
IsObstacle ==
    /\ lookup' = [op |-> "isObstacle",
                  tile |-> -1,
                  obstacle |-> isObstacle(cell.col, cell.row)]
    /\ UNCHANGED cell

GridNext == GetTrackTileAt \/ IsObstacle

\* ------------------------------------------- entities under the systems
WorldKinds == {"Transform", "Physics", "Sprite", "Input", "Collider"}

\* the component sets explored: a car as createCar builds it, a car given a
\* Collider, and an entity with no Physics and no Input
KindChoices ==
    {{"Transform", "Physics", "Sprite", "Input"},
     WorldKinds,
     {"Transform", "Sprite", "Collider"}}

\* the entity of player p: the car's components, of which it owns kinds; hits
\* counts the calls of its Collider's onCollision handler
createWorldEntity(p, kinds) ==
    [body |-> createCar(getPlayerStartPositions[p]),
     kinds |-> kinds, visible |-> TRUE, hits |-> 0]

\* Entity.hasComponents
hasComponents(ent, names) == names \subseteq ent.kinds

\* InputSystem.update on entity i: CarInput.update reads the flags and applies
\* them when the entity has a Physics
InputOn(st, i, as) ==
    IF hasComponents(st.w[i], {"Input"}) /\ st.w[i].body.active
    THEN [st EXCEPT !.w[i].body =
                        IF hasComponents(st.w[i], {"Physics"})
                        THEN CarInputUpdate(@, i, as)
                        ELSE CarInputState(@, i, as),
                    !.log = Append(@, <<i, "Input.update">>)]
    ELSE st

\* MovementSystem.update on entity i with no look at Entity.isActive
MoveOnAlways(st, i, dt) ==
    IF hasComponents(st.w[i], {"Transform", "Physics"})
    THEN [st EXCEPT !.w[i].body = TransformStep(CarPhysicsUpdate(@, dt), dt),
                    !.log = @ \o <<<<i, "Physics.update">>, <<i, "Transform.update">>>>]
    ELSE st

\* MovementSystem.update on entity i with transform.update first
MoveOnTransformFirst(st, i, dt) ==
    IF hasComponents(st.w[i], {"Transform", "Physics"}) /\ st.w[i].body.active
    THEN [st EXCEPT !.w[i].body = CarPhysicsUpdate(TransformStep(@, dt), dt),
                    !.log = @ \o <<<<i, "Transform.update">>, <<i, "Physics.update">>>>]
    ELSE st

\* MovementSystem.update on entity i: physics.update, then transform.update
MoveOn(st, i, dt) ==
    IF hasComponents(st.w[i], {"Transform", "Physics"}) /\ st.w[i].body.active
    THEN [st EXCEPT !.w[i].body = TransformStep(CarPhysicsUpdate(@, dt), dt),
                    !.log = @ \o <<<<i, "Physics.update">>, <<i, "Transform.update">>>>]
    ELSE st

\* CollisionSystem's filter
Collidable(ent) == hasComponents(ent, {"Transform", "Collider"}) /\ ent.body.active

\* CollisionSystem.checkCollision: the bounding boxes around the centres a
\* and b overlap
isColliding(a, b) ==
    ~ \/ 2 * a.x + ColliderSize * SCALE < 2 * b.x - ColliderSize * SCALE
      \/ 2 * a.x - ColliderSize * SCALE > 2 * b.x + ColliderSize * SCALE
      \/ 2 * a.y + ColliderSize * SCALE < 2 * b.y - ColliderSize * SCALE
      \/ 2 * a.y - ColliderSize * SCALE > 2 * b.y + ColliderSize * SCALE

\* CollisionSystem.update: the one pair of the two entities, and
\* handleCollision calling both handlers
CollideAll(st) ==
    IF /\ Collidable(st.w[1]) /\ Collidable(st.w[2])
       /\ isColliding(st.w[1].body.transform.position,
                      st.w[2].body.transform.position)
    THEN [st EXCEPT !.w[1].hits = @ + 1,
                    !.w[2].hits = @ + 1,
                    !.log = @ \o <<<<1, "Collider.onCollision">>,
                                   <<2, "Collider.onCollision">>>>]
    ELSE st

\* RenderSystem.render on entity i
RenderOn(st, i) ==
    IF /\ hasComponents(st.w[i], {"Transform", "Sprite"})
       /\ st.w[i].body.active
       /\ st.w[i].visible
    THEN [st EXCEPT !.log = Append(@, <<i, "Sprite.render">>)]
    ELSE st

\* system.update(deltaTime, entities) of the system s: entities.forEach in
\* the order of their ids
SystemUpdate(st, s, as, dt) ==
    CASE s = "InputSystem" -> InputOn(InputOn(st, 1, as), 2, as)
      [] s = "MovementSystem" -> MoveOn(MoveOn(st, 1, dt), 2, dt)
      [] s = "CollisionSystem" -> CollideAll(st)
      [] OTHER -> st

\* system.render(ctx, entities) of the system s; the track system draws tiles
SystemRender(st, s) ==
    IF s = "RenderSystem" THEN RenderOn(RenderOn(st, 1), 2) ELSE st

\* GameScene.update: this.systems.forEach(system => system.update(...))
RECURSIVE UpdateAll(_, _, _, _)
UpdateAll(st, order, as, dt) ==
    IF order = <<>> THEN st
    ELSE UpdateAll(SystemUpdate(st, Head(order), as, dt), Tail(order), as, dt)

\* GameScene.render: this.systems.forEach(system => system.render(...))
RECURSIVE RenderAll(_, _)
RenderAll(st, order) ==
    IF order = <<>> THEN st
    ELSE RenderAll(SystemRender(st, Head(order)), Tail(order))

\* the system lists explored: GameScene.systems before and after the track
\* system joins it, and a scene that also runs a CollisionSystem
SystemLists ==
    {<<"InputSystem", "MovementSystem", "RenderSystem">>,
     SortByPriority(<<"TrackRenderSystem", "InputSystem", "MovementSystem",
                      "RenderSystem">>),
     SortByPriority(<<"InputSystem", "MovementSystem", "RenderSystem",
                      "CollisionSystem">>)}

\* the keys held during a frame
HeldSets == {{}, {"KeyW"}, {"KeyW", "KeyD", "ArrowUp"}}

WorldInit ==
    /\ world \in [1 .. 2 -> {createWorldEntity(1, k) : k \in KindChoices}
                            \cup {createWorldEntity(2, k) : k \in KindChoices}]
    /\ \A i \in 1 .. 2 :
          world[i].body.transform.position = getPlayerStartPositions[i]
    /\ worldSystems \in SystemLists
    /\ worldLog = <<>>
    /\ worldBefore = world
    /\ worldFrames = 0
    /\ worldOp = "none"

\* Entity.setActive(b) on entity i
WorldSetActive(i, b) ==
    /\ world' = [world EXCEPT ![i].body.active = b]
    /\ worldBefore' = world'
    /\ worldLog' = <<>>
    /\ worldOp' = "setActive"
    /\ UNCHANGED <<worldSystems, worldFrames>>

\* one processed frame: GameScene.update(dt), then GameScene.render(ctx)
WorldFrame(dt, ks) ==
    /\ worldFrames < MaxFrames
    /\ world' = UpdateAll([w |-> world, log |-> <<>>], worldSystems,
                          UpdatedActionStates(ks), dt).w
    /\ worldLog' = RenderAll(UpdateAll([w |-> world, log |-> <<>>], worldSystems,
                                       UpdatedActionStates(ks), dt),
                             worldSystems).log
    /\ worldBefore' = world
    /\ worldFrames' = worldFrames + 1
    /\ worldOp' = "frame"
    /\ UNCHANGED worldSystems

WorldNext ==
    \/ \E i \in 1 .. 2, b \in BOOLEAN : WorldSetActive(i, b)
    \/ \E dt \in DtSet, ks \in HeldSets : WorldFrame(dt, ks)

\* ------------------------------------------- AssetManager (AssetManager.js)
\* the images of the asset configuration explored, in Object.entries order
LoadOrder == <<"PLAYER1_CAR", "TRACK_ROAD">>

LoadKeys == {LoadOrder[n] : n \in 1 .. Len(LoadOrder)}

\* new AssetManager(): loadingPromises maps a key to the number of its load
\* in flight, 0 for no entry
NewAssetManager ==
    [assets |-> {}, loadingPromises |-> [k \in LoadKeys |-> 0],
     loadedCount |-> 0, totalCount |-> 0]

\* the promise loadImage returns: that of a load (load > 0), or one already
\* resolved with the cached image (load = 0)
NoPromise == [kind |-> "none", load |-> 0]

\* AssetManager.loadImage that starts a load whenever the key is not loaded
loadImageAgain(st, key) ==
    IF key \in st.mgr.assets
    THEN [st EXCEPT !.ret = [kind |-> "cached", load |-> 0]]
    ELSE [st EXCEPT !.loads[key] = Append(@, "pending"),
                    !.mgr.loadingPromises[key] = Len(st.loads[key]) + 1,
                    !.mgr.totalCount = @ + 1,
                    !.ret = [kind |-> "new", load |-> Len(st.loads[key]) + 1]]

\* AssetManager.loadImage(key, src) on st = [mgr, loads, ret]
loadImage(st, key) ==
    IF st.mgr.loadingPromises[key] # 0
    THEN [st EXCEPT !.ret = [kind |-> "existing",
                             load |-> st.mgr.loadingPromises[key]]]
    ELSE IF key \in st.mgr.assets
         THEN [st EXCEPT !.ret = [kind |-> "cached", load |-> 0]]
         ELSE [st EXCEPT !.loads[key] = Append(@, "pending"),
                         !.mgr.loadingPromises[key] = Len(st.loads[key]) + 1,
                         !.mgr.totalCount = @ + 1,
                         !.ret = [kind |-> "new", load |-> Len(st.loads[key]) + 1]]

\* AssetManager.loadImages: loadImage for every entry of the configuration;
\* waits collects the promise of each key
RECURSIVE loadImages(_, _, _)
loadImages(st, order, waits) ==
    IF order = <<>> THEN [st |-> st, waits |-> waits]
    ELSE loadImages(loadImage(st, Head(order)), Tail(order),
                    [waits EXCEPT ![Head(order)] = loadImage(st, Head(order)).ret.load])

\* Promise.all that waits for every load and takes a failed one as settled
PromiseAllSettled(waits, loads) ==
    IF \A k \in LoadKeys : waits[k] = 0 \/ loads[k][waits[k]] # "pending"
    THEN "resolved"
    ELSE "pending"

\* Promise.all over the awaited promises: "rejected" as soon as one load has
\* failed, "resolved" when every one has loaded, "pending" otherwise
PromiseAll(waits, loads) ==
    IF \E k \in LoadKeys : waits[k] # 0 /\ loads[k][waits[k]] = "failed"
    THEN "rejected"
    ELSE IF \A k \in LoadKeys : waits[k] = 0 \/ loads[k][waits[k]] = "loaded"
         THEN "resolved"
         ELSE "pending"

\* AssetManager.isAllLoaded
isAllLoaded(mgr) ==
    /\ \A k \in LoadKeys : mgr.loadingPromises[k] = 0
    /\ mgr.loadedCount = mgr.totalCount

\* new LoadingScene(assetConfig, onComplete)
NewLoadingScene ==
    [state |-> "constructed", waits |-> [k \in LoadKeys |-> 0],
     preload |-> "none", completes |-> 0]

\* LoadingScene.startLoading after its await: the try block goes on to set
\* the 500 ms timer, the catch block sets 'Loading Failed!'
SceneSettle(scene, loads) ==
    IF scene.state # "loading" THEN scene
    ELSE CASE PromiseAll(scene.waits, loads) = "rejected" ->
                  [scene EXCEPT !.state = "failed", !.preload = "rejected"]
           [] PromiseAll(scene.waits, loads) = "resolved" ->
                  [scene EXCEPT !.state = "waiting", !.preload = "resolved"]
           [] OTHER -> scene

NoLoad ==
    [key |-> "", ret |-> NoPromise,
     before |-> [totalCount |-> 0, loadedCount |-> 0, loads |-> 0, inFlight |-> 0,
                 loaded |-> FALSE],
     after  |-> [totalCount |-> 0, loadedCount |-> 0, loads |-> 0]]

AssetInit ==
    /\ assetManager = NewAssetManager
    /\ imageLoads = [k \in LoadKeys |-> <<>>]
    /\ loadingScene = NewLoadingScene
    /\ lastLoad = NoLoad
    /\ loadCalls = 0

\* a call assetManager.loadImage(key, src) from outside the loading scene
LoadImage(key) ==
    /\ loadCalls < MaxLoadCalls
    /\ Len(imageLoads[key]) < MaxLoads
    /\ assetManager' =
           loadImage([mgr |-> assetManager, loads |-> imageLoads, ret |-> NoPromise],
                     key).mgr
    /\ imageLoads' =
           loadImage([mgr |-> assetManager, loads |-> imageLoads, ret |-> NoPromise],
                     key).loads
    /\ lastLoad' =
           [key |-> key,
            ret |-> loadImage([mgr |-> assetManager, loads |-> imageLoads,
                               ret |-> NoPromise], key).ret,
            before |-> [totalCount |-> assetManager.totalCount,
                        loadedCount |-> assetManager.loadedCount,
                        loads |-> Len(imageLoads[key]),
                        inFlight |-> assetManager.loadingPromises[key],
                        loaded |-> key \in assetManager.assets],
            after |-> [totalCount |-> assetManager'.totalCount,
                       loadedCount |-> assetManager'.loadedCount,
                       loads |-> Len(imageLoads'[key])]]
    /\ loadCalls' = loadCalls + 1
    /\ UNCHANGED loadingScene

\* LoadingScene.startLoading up to its await of preloadAssets
StartLoading ==
    /\ loadingScene.state = "constructed"
    /\ \A k \in LoadKeys : Len(imageLoads[k]) < MaxLoads
    /\ assetManager' =
           loadImages([mgr |-> assetManager, loads |-> imageLoads, ret |-> NoPromise],
                      LoadOrder, loadingScene.waits).st.mgr
    /\ imageLoads' =
           loadImages([mgr |-> assetManager, loads |-> imageLoads, ret |-> NoPromise],
                      LoadOrder, loadingScene.waits).st.loads
    /\ loadingScene' =
           SceneSettle([loadingScene EXCEPT
                            !.state = "loading",
                            !.preload = "pending",
                            !.waits = loadImages([mgr |-> assetManager,
                                                  loads |-> imageLoads,
                                                  ret |-> NoPromise],
                                                 LoadOrder, loadingScene.waits).waits],
                       imageLoads')
    /\ UNCHANGED <<lastLoad, loadCalls>>

\* image.onload of load n of the key, and the promise reactions after it
ImageLoaded(key, n) ==
    /\ n \in 1 .. Len(imageLoads[key])
    /\ imageLoads[key][n] = "pending"
    /\ imageLoads' = [imageLoads EXCEPT ![key][n] = "loaded"]
    /\ assetManager' = [assetManager EXCEPT !.assets = @ \cup {key},
                                            !.loadingPromises[key] = 0,
                                            !.loadedCount = @ + 1]
    /\ loadingScene' = SceneSettle(loadingScene, imageLoads')
    /\ UNCHANGED <<lastLoad, loadCalls>>

\* image.onerror of load n of the key, and the promise reactions after it
ImageFailed(key, n) ==
    /\ n \in 1 .. Len(imageLoads[key])
    /\ imageLoads[key][n] = "pending"
    /\ imageLoads' = [imageLoads EXCEPT ![key][n] = "failed"]
    /\ assetManager' = [assetManager EXCEPT !.loadingPromises[key] = 0]
    /\ loadingScene' = SceneSettle(loadingScene, imageLoads')
    /\ UNCHANGED <<lastLoad, loadCalls>>

\* the 500 ms timer of startLoading fires: this.onComplete(assets)
CompleteTimer ==
    /\ loadingScene.state = "waiting"
    /\ loadingScene' = [loadingScene EXCEPT !.state = "complete",
                                            !.completes = @ + 1]
    /\ UNCHANGED <<assetManager, imageLoads, lastLoad, loadCalls>>

AssetNext ==
    \/ \E key \in LoadKeys : LoadImage(key)
    \/ StartLoading
    \/ \E key \in LoadKeys, n \in 1 .. MaxLoads : ImageLoaded(key, n)
    \/ \E key \in LoadKeys, n \in 1 .. MaxLoads : ImageFailed(key, n)
    \/ CompleteTimer

\* AssetManager.clear
clear(mgr) ==
    [mgr EXCEPT !.assets = {},
                !.loadingPromises = [k \in LoadKeys |-> 0],
                !.loadedCount = 0,
                !.totalCount = 0]

\* AssetManager.removeAsset
removeAsset(mgr, key) == [mgr EXCEPT !.assets = @ \ {key}]

\* a call assetManager.clear(); the images in flight keep their handlers
Clear ==
    /\ loadCalls < MaxLoadCalls
    /\ assetManager' = clear(assetManager)
    /\ loadCalls' = loadCalls + 1
    /\ UNCHANGED <<imageLoads, loadingScene, lastLoad>>

\* a call assetManager.removeAsset(key)
RemoveAsset(key) ==
    /\ loadCalls < MaxLoadCalls
    /\ assetManager' = removeAsset(assetManager, key)
    /\ loadCalls' = loadCalls + 1
    /\ UNCHANGED <<imageLoads, loadingScene, lastLoad>>

\* the asset manager with clear and removeAsset among its calls
ClearNext ==
    \/ AssetNext
    \/ Clear
    \/ \E key \in LoadKeys : RemoveAsset(key)

\* --------------------------------- TrackRenderSystem (TrackRenderSystem.js)
TileTypes == {ROAD, WALL, PLAYER_START, GOAL, TREE, FLAG}

TrackKeys == {"TRACK_ROAD", "TRACK_WALL", "TRACK_GOAL", "TRACK_FLAG", "TRACK_TREE"}

\* the asset key createTileImageMap reads for a tile type
TileKey(t) ==
    CASE t = ROAD -> "TRACK_ROAD"
      [] t = WALL -> "TRACK_WALL"
      [] t = GOAL -> "TRACK_GOAL"
      [] t = FLAG -> "TRACK_FLAG"
      [] t = TREE -> "TRACK_TREE"
      [] t = PLAYER_START -> "TRACK_ROAD"

\* no entry of the tile map
NoImage == [present |-> FALSE, src |-> "", status |-> ""]

\* createImageFromImport(importPath): a new Image whose src is the path, or
\* the text "undefined" when the mapping has no such key
createImageFromImport(assets, key) ==
    [present |-> TRUE,
     src |-> IF key \in assets THEN key ELSE "undefined",
     status |-> "loading"]

\* TrackRenderSystem.createTileImageMap
createTileImageMap(assets) ==
    IF assets = Null THEN [t \in TileTypes |-> NoImage]
    ELSE [t \in TileTypes |-> createImageFromImport(assets[1], TileKey(t))]

\* what renderTrackGrid does for tile n of the grid: drawImage with a loaded
\* image draws it, with an image still loading draws nothing, with a broken
\* image throws InvalidStateError; with no image the fallback colour is drawn
TileOutcome(images, n) ==
    IF ~images[TRACK_GRID[n]].present THEN "fallback"
    ELSE CASE images[TRACK_GRID[n]].status = "complete" -> "image"
           [] images[TRACK_GRID[n]].status = "loading" -> "nothing"
           [] images[TRACK_GRID[n]].status = "broken" -> "throws"

\* the tiles at which drawImage throws
Throwing(images) == {n \in 1 .. COLS * ROWS : TileOutcome(images, n) = "throws"}

\* the loops of renderTrackGrid, which end at the first tile of throwing
RenderUpTo(images, throwing) ==
    [n \in 1 .. COLS * ROWS |->
        IF \A k \in throwing : n <= k THEN TileOutcome(images, n) ELSE "skipped"]

\* TrackRenderSystem.renderTrackGrid: what becomes of each tile
renderTrackGrid(images) == RenderUpTo(images, Throwing(images))

NoDraws == [done |-> FALSE, tiles |-> <<>>]

\* the asset mappings explored: none, an empty one, the full one and the full
\* one less one key
AssetMappings ==
    {Null, <<{}>>, <<TrackKeys>>} \cup {<<TrackKeys \ {k}>> : k \in TrackKeys}

TrackInit ==
    /\ trackAssets \in AssetMappings
    /\ tileImages = createTileImageMap(trackAssets)
    /\ trackDraws = NoDraws

\* the load event of the Image of tile type t
TrackImageLoads(t) ==
    /\ tileImages[t].present
    /\ tileImages[t].status = "loading"
    /\ tileImages[t].src # "undefined"
    /\ tileImages' = [tileImages EXCEPT ![t].status = "complete"]
    /\ trackDraws' = NoDraws
    /\ UNCHANGED trackAssets

\* the error event of the Image of tile type t
TrackImageBreaks(t) ==
    /\ tileImages[t].present
    /\ tileImages[t].status = "loading"
    /\ tileImages' = [tileImages EXCEPT ![t].status = "broken"]
    /\ trackDraws' = NoDraws
    /\ UNCHANGED trackAssets

\* TrackRenderSystem.render(ctx, entities)
TrackRender ==
    /\ trackDraws' = [done |-> TRUE, tiles |-> renderTrackGrid(tileImages)]
    /\ UNCHANGED <<trackAssets, tileImages>>

TrackNext ==
    \/ \E t \in TileTypes : TrackImageLoads(t)
    \/ \E t \in TileTypes : TrackImageBreaks(t)
    \/ TrackRender

\* the track system as GameScene.setupSystems builds it, before any event
TrackIdle ==
    /\ trackAssets = <<TrackKeys>>
    /\ tileImages = createTileImageMap(trackAssets)
    /\ trackDraws = NoDraws

\* ------------------------------------------------------------ specifications
\* a part of the program that a specification leaves as constructed
CarIdle == CarInit /\ player = 1

LoopIdle == LoopInit

EntityIdle == EntityInit

BootIdle == BootInit

\* the lone Physics component left as new Physics() builds it
BodyIdle ==
    /\ body = createBody(0, 100 * SCALE, 0, 90, FALSE)
    /\ lastUpdate = NoUpdate
    /\ bodySteps = 0

\* no cell asked about
GridIdle == cell = [col |-> 0, row |-> 0] /\ lookup = NoLookup

\* the two entities as two new cars under the scene's first system list
WorldIdle ==
    /\ world = [i \in 1 .. 2 |->
                   createWorldEntity(i, {"Transform", "Physics", "Sprite", "Input"})]
    /\ worldSystems = <<"InputSystem", "MovementSystem", "RenderSystem">>
    /\ worldLog = <<>>
    /\ worldBefore = world
    /\ worldFrames = 0
    /\ worldOp = "none"

\* nothing started, pressed or torn down yet
LateIdle ==
    /\ played = [since |-> 0, total |-> 0]
    /\ pressWatch = [unseen |-> {}, missed |-> {}]
    /\ teardown = [done |-> FALSE, imports |-> 0]

MoreIdle == WorldIdle /\ AssetInit /\ TrackIdle /\ LateIdle

ExtraIdle == RegInit /\ BodyIdle /\ GridIdle /\ MoreIdle

\* the car driven by its keys, frame by frame
Init == CarInit /\ LoopIdle /\ EntityIdle /\ BootIdle /\ ExtraIdle

Next == CarNext /\ UNCHANGED <<loopVars, entityVars, bootVars, extraVars>>

Spec == Init /\ [][Next]_vars

\* the presses a step of the car's world leaves unobserved.  A tick runs
\* InputManager.update: it observes the presses whose action isActionDown
\* reports afterwards.  A keydown adds its press to the unseen ones; a keyup
\* of a press still unseen makes it a missed one.
WatchStep ==
    pressWatch' =
        IF ticks' # ticks
        THEN [pressWatch EXCEPT
                 !.unseen = {code \in @ :
                                ~\E a \in Actions : /\ keyMappings[a] = code
                                                     /\ isActionDown(actionStates', a)}]
        ELSE [unseen |-> (pressWatch.unseen \cup (keys' \ keys)) \ (keys \ keys'),
              missed |-> pressWatch.missed \cup ((keys \ keys') \cap pressWatch.unseen)]

\* the car driven by its keys, with every key press followed up
PressSpecNext ==
    /\ CarNext
    /\ WatchStep
    /\ UNCHANGED <<loopVars, entityVars, bootVars, regVars, physVars, gridVars,
                   worldVars, assetVars, trackVars, played, teardown>>

PressSpec == Init /\ [][PressSpecNext]_vars

\* the car as in Spec, with a physics component that may be made static
StaticSpecNext == (CarNext \/ MakeStatic) /\ UNCHANGED <<loopVars, entityVars, bootVars, extraVars>>

StaticSpec == Init /\ [][StaticSpecNext]_vars

\* the released car ticked on and on: the scene is updated every frame
CoastSpecInit == CoastInit /\ LoopIdle /\ EntityIdle /\ BootIdle /\ ExtraIdle

CoastSpecNext == CoastNext /\ UNCHANGED <<loopVars, entityVars, bootVars, extraVars>>

\* the step only CoastTick takes: the tick counter advances. It is enabled
\* exactly when CoastTick is, so weak fairness on it is weak fairness on
\* CoastTick: requestAnimationFrame keeps calling the loop back
FrameArrives == ticks < MaxCoast /\ ticks' = ticks + 1

CoastSpec == CoastSpecInit /\ [][CoastSpecNext]_vars /\ WF_ticks(FrameArrives)

\* the car driven round in a circle
LapSpecInit == LapInit /\ LoopIdle /\ EntityIdle /\ BootIdle /\ ExtraIdle

LapSpecNext == LapNext /\ UNCHANGED <<loopVars, entityVars, bootVars, extraVars>>

LapSpec == LapSpecInit /\ [][LapSpecNext]_vars

\* the engine loop against the host's frames
LoopSpecInit == LoopInit /\ CarIdle /\ EntityIdle /\ BootIdle /\ ExtraIdle

LoopSpecNext == LoopNext /\ UNCHANGED <<carVars, entityVars, bootVars, extraVars>>

LoopSpec == LoopSpecInit /\ [][LoopSpecNext]_vars

\* what a step of the loop adds to the record of simulated time: start()
\* opens a new run at the current time, a callback that updates adds the
\* delta time it passes to Game.update
PlayedStep ==
    played' = IF ~isRunning /\ isRunning'
              THEN [since |-> now, total |-> 0]
              ELSE IF frameQueue' < frameQueue /\ frameLog' # <<>>
                   THEN [played EXCEPT !.total = @ + lastCallback'.deltaTime]
                   ELSE played

\* the engine loop with its simulated time summed up
ClockSpecNext ==
    /\ LoopNext
    /\ PlayedStep
    /\ UNCHANGED <<carVars, entityVars, bootVars, regVars, physVars, gridVars,
                   worldVars, assetVars, trackVars, pressWatch, teardown>>

ClockSpec == LoopSpecInit /\ [][ClockSpecNext]_vars

\* the engine loop with scenes and systems that may throw
FaultNext ==
    \/ LoopNext
    \/ \E n \in 1 .. MaxThrowAt : gameLoopThrows(n)

FaultSpecNext == FaultNext /\ UNCHANGED <<carVars, entityVars, bootVars, extraVars>>

FaultSpec == LoopSpecInit /\ [][FaultSpecNext]_vars

\* entities under addComponent and removeComponent calls
EntitySpecInit == EntityInit /\ CarIdle /\ LoopIdle /\ BootIdle /\ ExtraIdle

EntitySpecNext == EntityNext /\ UNCHANGED <<carVars, loopVars, bootVars, extraVars>>

EntitySpec == EntitySpecInit /\ [][EntitySpecNext]_vars

\* the page load: initGame and the timers and imports it leaves behind
BootSpecInit == BootInit /\ CarIdle /\ LoopIdle /\ EntityIdle /\ ExtraIdle

BootSpecNext == BootNext /\ UNCHANGED <<carVars, entityVars, extraVars>>

BootSpec == BootSpecInit /\ [][BootSpecNext]_vars

CleanupSpecNext ==
    /\ CleanupNext
    /\ UNCHANGED <<carVars, entityVars, regVars, physVars, gridVars, worldVars,
                   assetVars, trackVars, played, pressWatch>>

CleanupSpec == BootSpecInit /\ [][CleanupSpecNext]_vars

\* the engine's registry: entities are given components, registered and removed
RegistrySpecInit ==
    /\ RegInit /\ EntityInit /\ BootInit /\ CarIdle /\ LoopIdle /\ BodyIdle /\ GridIdle
    /\ MoreIdle

RegistrySpecNext ==
    /\ RegistryNext
    /\ UNCHANGED <<carVars, loopVars, boot, sysChains, inputChains, timers, creating,
                   sceneSystems, sceneInputManager, inputEnabled, sceneAssets,
                   sceneEntities, preload, physVars, gridVars, moreVars>>

RegistrySpec == RegistrySpecInit /\ [][RegistrySpecNext]_vars

\* a Physics component alone under update and applyForce calls
BodySpecInit ==
    /\ BodyInit /\ RegInit /\ GridIdle /\ CarIdle /\ LoopIdle /\ EntityIdle /\ BootIdle
    /\ MoreIdle

BodySpecNext ==
    BodyNext /\ UNCHANGED <<carVars, loopVars, entityVars, bootVars, regVars, gridVars,
                           moreVars>>

BodySpec == BodySpecInit /\ [][BodySpecNext]_vars

\* the track grid asked about one cell
GridSpecInit ==
    /\ GridInit /\ RegInit /\ BodyIdle /\ CarIdle /\ LoopIdle /\ EntityIdle /\ BootIdle
    /\ MoreIdle

GridSpecNext ==
    GridNext /\ UNCHANGED <<carVars, loopVars, entityVars, bootVars, regVars, physVars,
                           moreVars>>

GridSpec == GridSpecInit /\ [][GridSpecNext]_vars

\* the part of the state outside moreVars, left as constructed
BaseIdle ==
    /\ CarIdle /\ LoopIdle /\ EntityIdle /\ BootIdle
    /\ RegInit /\ BodyIdle /\ GridIdle /\ LateIdle

baseVars == <<carVars, loopVars, entityVars, bootVars, regVars, physVars, gridVars,
              lateVars>>

\* two entities under the scene's systems, frame by frame
WorldSpecInit == WorldInit /\ AssetInit /\ TrackIdle /\ BaseIdle

WorldSpecNext == WorldNext /\ UNCHANGED <<baseVars, assetVars, trackVars>>

WorldSpec == WorldSpecInit /\ [][WorldSpecNext]_vars

\* the asset manager under a loading scene and direct loadImage calls
AssetSpecInit == AssetInit /\ WorldIdle /\ TrackIdle /\ BaseIdle

AssetSpecNext == AssetNext /\ UNCHANGED <<baseVars, worldVars, trackVars>>

AssetSpec == AssetSpecInit /\ [][AssetSpecNext]_vars

ClearSpecNext == ClearNext /\ UNCHANGED <<baseVars, worldVars, trackVars>>

ClearSpec == AssetSpecInit /\ [][ClearSpecNext]_vars

\* the track system under renders and the events of its images
TrackSpecInit == TrackInit /\ WorldIdle /\ AssetInit /\ BaseIdle

TrackSpecNext == TrackNext /\ UNCHANGED <<baseVars, worldVars, assetVars>>

TrackSpec == TrackSpecInit /\ [][TrackSpecNext]_vars

\* ------------------------------------------------------------ claims: the car
\* C1 (as stated): when a tick detects a collision (obstacle cell, grace
\* period over, latch set), at the end of that MovementSystem tick the car is
\* back at the position it had at the end of the preceding tick and its speed
\* is the updated speed times COLLISION_BOUNCE.
C1_RevertAndBounce ==
    (ticks > 0 /\ lastTick.enabled /\ lastTick.inObstacle) =>
        /\ car.transform.position = lastTick.positionBefore
        /\ car.physics.speed = Pct(lastTick.baseSpeed, COLLISION_BOUNCE)

\* C2: a tick that leaves startupTime <= 2000 or the latch unset made no
\* collision response: nothing was logged, the speed is the one Physics.update
\* computed and the position is the integrated one, also in an obstacle cell.
C2_NoResponseBeforeGrace ==
    (ticks > 0 /\ (car.physics.startupTime <= 2000 \/ ~car.physics.hasMovedFromStart)) =>
        /\ ~car.physics.collided
        /\ car.physics.speed = lastTick.baseSpeed
        /\ car.transform.position =
               [x |-> lastTick.positionBefore.x
                        + TDiv(car.transform.velocity.x * lastTick.dt, 1000),
                y |-> lastTick.positionBefore.y
                        + TDiv(car.transform.velocity.y * lastTick.dt, 1000)]

\* C2 witness: a tick ended with the car in an obstacle cell while the check
\* was still suppressed
C2_Witness ==
    /\ ticks > 0
    /\ lastTick.inObstacle
    /\ ~lastTick.enabled
    /\ car.physics.startupTime <= 2000

\* C5: the speed never exceeds maxSpeed, whatever inputs, forces, updates and
\* collision responses came before.
C5_SpeedBounded == car.physics.speed <= car.physics.maxSpeed

\* C5 witness: an update computed a speed above maxSpeed and clamped it
C5_Witness ==
    /\ ticks > 0
    /\ lastTick.unclampedSpeed > car.physics.maxSpeed
    /\ lastTick.baseSpeed = car.physics.maxSpeed

\* C6 (as stated): with only "down" held and a speed in (-1, 2], the update
\* that follows the input step does not increase the speed along the facing
\* direction.
C6_ReverseNotForward ==
    (/\ ticks > 0
     /\ lastTick.held = {"down"}
     /\ lastTick.accelerationBefore = 0
     /\ lastTick.speedBefore <= 2 * SCALE
     /\ lastTick.speedBefore > -1 * SCALE) =>
        lastTick.baseSpeed <= lastTick.speedBefore

\* ----------------------------------------------------- claims: the engine loop
\* the calls of Game.update and of Game.render in the latest callback
EngineCalls(op) ==
    {i \in DOMAIN frameLog : frameLog[i].op = op /\ frameLog[i].on = "engine"}

NoUpdateNoRender == frameLog = <<>>

OneUpdateThenRender ==
    /\ Cardinality(EngineCalls("update")) = 1
    /\ Cardinality(EngineCalls("render")) = 1
    /\ \A i \in EngineCalls("update"), j \in EngineCalls("render") : i < j

\* C3 (as stated): a callback less than the frame interval after the callback
\* before it makes no update and no render; one at or above the interval makes
\* exactly one update followed by one render.
C3_SpacingDecides ==
    (lastCallback.seen /\ lastCallback.running) =>
        /\ lastCallback.gap < FrameInterval => NoUpdateNoRender
        /\ lastCallback.gap >= FrameInterval => OneUpdateThenRender

\* C3 (amended): while the loop is running, what decides is the time since
\* lastFrameTime (the latest processed callback's timestamp less the carried
\* remainder, or the start time): below the frame interval no update and no
\* render, at or above it exactly one update followed by one render; a callback
\* at or above the interval after the callback before it is always in the
\* second case.
C3_DeltaDecides ==
    (lastCallback.seen /\ lastCallback.running) =>
        /\ lastCallback.deltaTime < FrameInterval => NoUpdateNoRender
        /\ lastCallback.deltaTime >= FrameInterval => OneUpdateThenRender
        /\ lastCallback.gap >= FrameInterval => OneUpdateThenRender

\* C3 witness: a callback that came less than the interval after the callback
\* before it and was processed
C3_Witness ==
    /\ lastCallback.seen
    /\ lastCallback.running
    /\ lastCallback.gap < FrameInterval
    /\ lastCallback.deltaTime >= FrameInterval
    /\ OneUpdateThenRender

\* C4 (as stated): in a processed frame the systems are updated in ascending
\* priority order, whatever the order of the addSystem calls, and an inactive
\* system does no work.
C4_PriorityOrder ==
    \A i, j \in DOMAIN frameLog :
        (/\ i < j
         /\ frameLog[i].op = "update" /\ frameLog[i].on \in SystemKinds
         /\ frameLog[j].op = "update" /\ frameLog[j].on \in SystemKinds) =>
            Priority(frameLog[i].on) <= Priority(frameLog[j].on)

\* ---------------------------------------------------------- claims: entities
\* C9 (as stated): addComponent(k, c2) on an entity that holds another
\* component c1 under k leaves c2 under k and has run c1's cleanup hook exactly
\* once.
C9_ReplaceCleansUp ==
    LET c1 == lastOp.before.components[lastOp.entity][lastOp.kind]
    IN (lastOp.op = "addComponent" /\ c1 # Absent /\ c1 # lastOp.component) =>
           /\ getComponent(components, lastOp.entity, lastOp.kind) = lastOp.component
           /\ cleanups[c1] = lastOp.before.cleanups[c1] + 1

\* C10: right after addComponent(k, c) hasComponent(k) is true, right after
\* removeComponent(k) it is false, and removeComponent of a kind the entity
\* does not hold changes nothing.
C10_HasAfterAddRemove ==
    /\ lastOp.op = "addComponent" =>
           hasComponent(components, lastOp.entity, lastOp.kind)
    /\ lastOp.op = "removeComponent" =>
           ~hasComponent(components, lastOp.entity, lastOp.kind)
    /\ (lastOp.op = "removeComponent"
        /\ ~hasComponent(lastOp.before.components, lastOp.entity, lastOp.kind)) =>
           EntityState = lastOp.before

\* C10 witness: removeComponent has just taken away a component the entity held
C10_Witness ==
    /\ lastOp.op = "removeComponent"
    /\ hasComponent(lastOp.before.components, lastOp.entity, lastOp.kind)
    /\ ~hasComponent(components, lastOp.entity, lastOp.kind)

\* ------------------------------------------------------ claims: the bootstrap
\* nothing of the bootstrap is still pending
BootComplete ==
    /\ boot = "started"
    /\ timers = 0
    /\ creating = 0
    /\ \A i \in DOMAIN sysChains : sysChains[i] = 4
    /\ \A i \in DOMAIN inputChains : inputChains[i] = 2

CarsTagged(tag) ==
    {i \in DOMAIN entities : "car" \in entities[i].tags /\ tag \in entities[i].tags}

\* C7 (as stated): once the bootstrap has completed, the engine's entity
\* collection holds exactly two car entities, one tagged player1 and one
\* tagged player2.
C7_TwoCars ==
    BootComplete =>
        /\ Cardinality(DOMAIN entities) = 2
        /\ Cardinality(CarsTagged("player1")) = 1
        /\ Cardinality(CarsTagged("player2")) = 1

\* C8 (as stated): the game scene's systems exist and the loop is started only
\* after asset loading has resolved into an images-by-key mapping.
C8_SystemsAfterAssets ==
    (isRunning \/ sceneSystems # <<>>) => preload = "resolved"

\* ------------------------------------------------------ claims: the registry
\* the components an entity held in the state st
OwnedComponents(st, e) == {st.components[e][k] : k \in Kinds} \ {Absent}

\* C11 (as stated): removeEntity(id) of a registered entity that leaves the
\* entity out of the registry has run the cleanup hook of every component the
\* entity owns.
C11_RemoveCleansUp ==
    (/\ lastReg.op = "removeEntity"
     /\ lastReg.present
     /\ \A i \in DOMAIN entities : entities[i] # lastReg.entity) =>
        \A c \in OwnedComponents(lastReg.beforeEntities, lastReg.entity) :
            cleanups[c] > lastReg.beforeEntities.cleanups[c]

\* C12: each id addEntity returns is the count of ids returned before it and so
\* is greater than all of them, also after removals; removeEntity of an id that
\* is not registered changes neither the registry nor any entity.
C12_IdsIncrease ==
    /\ lastReg.op = "addEntity" =>
           /\ \A j \in lastReg.issuedBefore : lastReg.id > j
           /\ lastReg.id = Cardinality(lastReg.issuedBefore)
           /\ lastReg.id \in DOMAIN entities
           /\ entities[lastReg.id] = lastReg.entity
    /\ (lastReg.op = "removeEntity" /\ ~lastReg.present) =>
           /\ Registry = lastReg.before
           /\ EntityState = lastReg.beforeEntities

\* C12 witness: addEntity has returned an id while an id it returned earlier is
\* no longer registered
C12_Witness ==
    /\ lastReg.op = "addEntity"
    /\ \E j \in lastReg.issuedBefore : j \notin DOMAIN entities

\* ------------------------------------------------- claims: the stopped loop
\* C13: while the loop stays stopped, a callback makes no update and no render
\* and requests no further callback: no step produces a new frame log, and the
\* callbacks pending or requested never grow in number.
C13_StoppedStaysIdle ==
    [][(~isRunning /\ ~isRunning') =>
          /\ frameLog' \in {frameLog, <<>>}
          /\ requested' + frameQueue' <= requested + frameQueue]_vars

\* C13 witness: a callback has run while the loop was stopped, and nothing is
\* requested or pending any more
C13_Witness ==
    /\ lastCallback.seen
    /\ ~lastCallback.running
    /\ ~isRunning
    /\ frameLog = <<>>
    /\ requested = 0
    /\ frameQueue = 0

\* ------------------------------------------- claims: update before render
\* C14: in a processed frame every update call (the scene's and each system's)
\* comes before the canvas is cleared and before every render call.
C14_UpdateBeforeRender ==
    \A i, j \in DOMAIN frameLog :
        (frameLog[i].op = "update" /\ frameLog[j].op \in {"clearRect", "render"}) => i < j

\* C14 witness: a processed frame with a scene and at least two systems
C14_Witness ==
    /\ OneUpdateThenRender
    /\ currentScene
    /\ Len(systems) >= 2
    /\ \E i \in DOMAIN frameLog : frameLog[i].op = "render" /\ frameLog[i].on = "scene"

\* ------------------------------------------------ claims: static physics
\* C15 (as stated): an update(dt) of a physics component that is static leaves
\* its speed, acceleration and direction as they were, for the car's CarPhysics
\* too.
C15_StaticUnchanged ==
    (ticks > 0 /\ lastTick.physicsIn.isStatic) =>
        /\ car.physics.speed = lastTick.physicsIn.speed
        /\ car.physics.acceleration = lastTick.physicsIn.acceleration
        /\ car.physics.direction = lastTick.physicsIn.direction

\* ------------------------------------------------ claims: Physics.update
\* C16: an update(dt) of a non-static Physics leaves
\* speed = min((speed + acceleration * dt) * friction, maxSpeed) and
\* acceleration = 0; with acceleration 0 every dt gives the same speed; friction
\* 0.9, speed 10 and maxSpeed 100 give speed 9.
C16_UpdateFormula ==
    (lastUpdate.done /\ ~lastUpdate.before.physics.isStatic) =>
        LET p == lastUpdate.before.physics
        IN /\ body.physics.speed =
                  Min(TDiv((p.speed + TDiv(p.acceleration * lastUpdate.dt, 1000))
                               * p.friction, 100),
                      p.maxSpeed)
           /\ body.physics.acceleration = 0
           /\ p.acceleration = 0 =>
                  \A dt \in DtSet :
                      PhysicsUpdate(lastUpdate.before, dt).physics.speed = body.physics.speed
           /\ (p.acceleration = 0 /\ p.friction = 90 /\ p.speed = 10 * SCALE
               /\ p.maxSpeed = 100 * SCALE) => body.physics.speed = 9 * SCALE

\* C16 witness: the update of friction 0.9, speed 10, maxSpeed 100 and no
\* acceleration has run
C16_Witness ==
    /\ lastUpdate.done
    /\ ~lastUpdate.before.physics.isStatic
    /\ lastUpdate.before.physics.acceleration = 0
    /\ lastUpdate.before.physics.friction = 90
    /\ lastUpdate.before.physics.speed = 10 * SCALE
    /\ lastUpdate.before.physics.maxSpeed = 100 * SCALE
    /\ body.physics.speed = 9 * SCALE

\* ------------------------------------------- claims: accelerating and coasting
\* the displacement from position a to position b along the facing direction
\* of rotation rot
DisplacementAlong(a, b, rot) ==
    TDiv((b.x - a.x) * Cos(rot) + (b.y - a.y) * Sin(rot), SCALE)

\* the displacement of the latest tick and of the tick before it
LatestDisplacement ==
    DisplacementAlong(lastTick.positionBefore, car.transform.position,
                      car.transform.rotation)

PreviousDisplacement ==
    DisplacementAlong(lastTick.previousPositionBefore, lastTick.positionBefore,
                      car.transform.rotation)

\* C17 (as stated): a car that has held only "up" in every tick, at a fixed dt,
\* moves at least as far along its facing direction in each tick as in the tick
\* before, and exactly as far once its speed had reached maxSpeed.
C17_DisplacementGrows ==
    (ticks >= 2 /\ lastTick.upRun = ticks) =>
        /\ LatestDisplacement >= PreviousDisplacement
        /\ lastTick.speedBefore >= car.physics.maxSpeed =>
               LatestDisplacement = PreviousDisplacement

\* C17 (amended): the same, as long as no tick of the run has made a collision
\* response.
C17_DisplacementGrowsUntilBounce ==
    (ticks >= 2 /\ lastTick.upRun = ticks /\ ~lastTick.bounced) =>
        /\ LatestDisplacement >= PreviousDisplacement
        /\ lastTick.speedBefore >= car.physics.maxSpeed =>
               LatestDisplacement = PreviousDisplacement

\* C17 witness: a run of "up" only has reached maxSpeed and gone on at the
\* steady displacement, with no collision response
C17_Witness ==
    /\ ticks >= 2
    /\ lastTick.upRun = ticks
    /\ ~lastTick.bounced
    /\ lastTick.speedBefore = car.physics.maxSpeed
    /\ LatestDisplacement = PreviousDisplacement
    /\ LatestDisplacement > 0

\* the sign of a speed
Sign(n) == IF n > 0 THEN 1 ELSE IF n < 0 THEN -1 ELSE 0

\* a step that takes the speed from one side of zero to the other
SignFlips == Sign(car.physics.speed) * Sign(car'.physics.speed) = -1

\* C18 as stated: with no action held the car's speed ends within Epsilon of
\* zero and no tick takes it from one side of zero to the other
C18_DecaysKeepingSign ==
    /\ <>[](Abs(car.physics.speed) <= Epsilon)
    /\ [][~SignFlips]_vars

\* C18: with no action held the car's speed ends within Epsilon of zero, and
\* a tick takes it from one side of zero to the other only when that tick
\* makes a collision response
C18_DecaysFlippingOnlyOnBounce ==
    /\ <>[](Abs(car.physics.speed) <= Epsilon)
    /\ [][SignFlips => (lastTick'.enabled /\ lastTick'.inObstacle
                        /\ car'.physics.collided)]_vars

\* a released car that was moving faster than Epsilon has come to rest within
\* Epsilon of zero
C18_Witness ==
    /\ ticks > 0
    /\ keys = {}
    /\ Abs(lastTick.speedBefore) > Epsilon
    /\ Abs(car.physics.speed) <= Epsilon

\* ------------------------------------------------------ claims: the latch
\* C19: once CarPhysics.hasMovedFromStart is true it is true in every later
\* state: no step takes it from true to false
C19_LatchStaysSet ==
    [][car.physics.hasMovedFromStart => car'.physics.hasMovedFromStart]_vars

\* the latch is set and a later tick found the car back within 20 pixels of
\* its start position
C19_Witness ==
    /\ car.physics.hasMovedFromStart
    /\ car.physics.startPosition # Null
    /\ ~FarFromStart(lastTick.positionBefore, car.physics.startPosition[1])
    /\ FarFromStart(lastTick.previousPositionBefore, car.physics.startPosition[1])

\* ------------------------------------------------------ claims: the grid
\* the cell asked about lies beyond an edge of the grid
OutOfBounds == cell.col < 0 \/ cell.col >= COLS \/ cell.row < 0 \/ cell.row >= ROWS

\* the entry of TRACK_GRID for the cell asked about, when it is in bounds
GridEntry == TRACK_GRID[cell.row * COLS + cell.col + 1]

\* C20: getTrackTileAt(col, row) returns WALL for col < 0, col >= COLS,
\* row < 0 and row >= ROWS and TRACK_GRID[row * COLS + col] otherwise;
\* isObstacle is true for every out-of-bounds cell and for every in-bounds
\* cell that is not ROAD, PLAYER_START and GOAL included
C20_GridLookup ==
    /\ lookup.op = "getTrackTileAt" =>
          lookup.tile = IF OutOfBounds THEN WALL ELSE GridEntry
    /\ lookup.op = "isObstacle" =>
          /\ OutOfBounds => lookup.obstacle
          /\ (~OutOfBounds /\ GridEntry # ROAD) => lookup.obstacle
          /\ (~OutOfBounds /\ GridEntry \in {PLAYER_START, GOAL}) => lookup.obstacle

\* isObstacle was asked about a start cell inside the grid and answered true
C20_Witness ==
    /\ lookup.op = "isObstacle"
    /\ ~OutOfBounds
    /\ GridEntry = PLAYER_START
    /\ lookup.obstacle

\* ------------------------------------------- claims: entities and systems
\* the entities that a frame's calls name
Called == {worldLog[n][1] : n \in 1 .. Len(worldLog)}

\* C21: an entity whose active flag is false is processed by no system: a
\* frame of InputSystem, MovementSystem, CollisionSystem and RenderSystem
\* leaves every component of it unchanged and issues no draw for it
C21_InactiveUntouched ==
    \A i \in 1 .. 2 :
        ~worldBefore[i].body.active =>
            /\ world[i] = worldBefore[i]
            /\ i \notin Called

\* a frame of a scene with a CollisionSystem ran over an inactive entity that
\* has every component, while the other entity was updated and drawn
C21_Witness ==
    /\ worldFrames > 0
    /\ "CollisionSystem" \in {worldSystems[n] : n \in 1 .. Len(worldSystems)}
    /\ \E i \in 1 .. 2 :
          /\ ~worldBefore[i].body.active
          /\ worldBefore[i].kinds = WorldKinds
          /\ Called = {3 - i}

\* the places of a call in the latest frame's log
Places(i, method) == {n \in 1 .. Len(worldLog) : worldLog[n] = <<i, method>>}

\* C25: in every tick, for every active entity with Transform and Physics,
\* Physics.update(dt) runs before Transform.update(dt), and for a car the
\* CarInput update of that tick (InputSystem) runs before both (MovementSystem)
C25_InputPhysicsTransform ==
    \A i \in 1 .. 2 :
        (/\ worldOp = "frame"
         /\ worldBefore[i].body.active
         /\ hasComponents(worldBefore[i], {"Transform", "Physics"})) =>
            /\ Cardinality(Places(i, "Physics.update")) = 1
            /\ Cardinality(Places(i, "Transform.update")) = 1
            /\ \A a \in Places(i, "Physics.update"), b \in Places(i, "Transform.update") :
                  /\ a < b
                  /\ \A c \in Places(i, "Input.update") : c < a
            /\ hasComponents(worldBefore[i], {"Input"}) =>
                  Cardinality(Places(i, "Input.update")) = 1

\* a frame of the scene with its track system ran over two active cars with
\* keys held: both were steered, then moved
C25_Witness ==
    /\ worldOp = "frame"
    /\ Head(worldSystems) = "TrackRenderSystem"
    /\ \A i \in 1 .. 2 :
          /\ worldBefore[i].body.active
          /\ Places(i, "Input.update") # {}
          /\ Places(i, "Physics.update") # {}
          /\ world[i].body.physics.speed > 0

\* ------------------------------------------------------ claims: the assets
\* a load the loading scene awaits has failed
AwaitedLoadFailed ==
    \E k \in LoadKeys :
        /\ loadingScene.waits[k] # 0
        /\ imageLoads[k][loadingScene.waits[k]] = "failed"

\* C22: if any image load fails, preloadAssets rejects to its caller and the
\* LoadingScene never calls onComplete; onComplete is called only after every
\* configured image has loaded
C22_FailureHaltsLoading ==
    /\ AwaitedLoadFailed =>
          /\ loadingScene.preload = "rejected"
          /\ loadingScene.state = "failed"
          /\ loadingScene.completes = 0
    /\ loadingScene.completes > 0 =>
          /\ LoadKeys \subseteq assetManager.assets
          /\ loadingScene.preload = "resolved"

\* one image of the loading scene has loaded and another has failed
C22_Witness ==
    /\ AwaitedLoadFailed
    /\ \E k \in LoadKeys :
          /\ loadingScene.waits[k] # 0
          /\ imageLoads[k][loadingScene.waits[k]] = "loaded"

\* the latest direct loadImage call left the two counters and the number of
\* Image loads of its key as they were
LoadChangedNothing ==
    /\ lastLoad.after.totalCount = lastLoad.before.totalCount
    /\ lastLoad.after.loadedCount = lastLoad.before.loadedCount
    /\ lastLoad.after.loads = lastLoad.before.loads

\* C30: loadImage(key, src) called while a load of the key is in flight
\* returns the existing promise and starts no second load; called after the
\* key is loaded it resolves with the cached image; in both cases totalCount
\* and loadedCount are unchanged
C30_RepeatedLoadImage ==
    /\ (lastLoad.key # "" /\ lastLoad.before.inFlight # 0) =>
          /\ lastLoad.ret = [kind |-> "existing", load |-> lastLoad.before.inFlight]
          /\ LoadChangedNothing
    /\ (lastLoad.key # "" /\ lastLoad.before.inFlight = 0 /\ lastLoad.before.loaded) =>
          /\ lastLoad.ret = [kind |-> "cached", load |-> 0]
          /\ LoadChangedNothing

\* loadImage was called for a key whose load, started by the loading scene,
\* was in flight
C30_Witness ==
    /\ lastLoad.key # ""
    /\ lastLoad.before.inFlight # 0
    /\ loadingScene.state # "constructed"
    /\ loadingScene.waits[lastLoad.key] = lastLoad.before.inFlight
    /\ lastLoad.ret.kind = "existing"

\* ------------------------------------------------------ claims: the track
\* C23 (as stated): for every tile of the grid whose tile type's asset key is
\* missing from the asset mapping, a render draws the fallback colour instead
\* of an image, so that every one of the COLS * ROWS tiles is drawn in every
\* render
C23_FallbackForMissingKey ==
    (trackDraws.done /\ trackAssets # Null) =>
        \A n \in 1 .. COLS * ROWS :
            TileKey(TRACK_GRID[n]) \notin trackAssets[1] =>
                trackDraws.tiles[n] = "fallback"

\* ------------------------------------------------------ claims: the frame time
\* C24 (as stated): the delta time passed to update in a processed frame never
\* exceeds GameConfig.GAME_LOOP.MAX_DELTA_TIME, whatever the gap between two
\* frame callbacks
C24_DeltaTimeCapped ==
    (lastCallback.seen /\ lastCallback.running /\ FrameDue(lastCallback.deltaTime)) =>
        lastCallback.deltaTime <= MAX_DELTA_TIME

\* ------------------------------------------------ claims: the start tile
\* the latest tick made its collision check with the car in the cell it was
\* created in
CheckedOnStartCell ==
    /\ ticks > 0
    /\ car.physics.startPosition # Null
    /\ worldToGrid(lastTick.positionBefore.x, lastTick.positionBefore.y)
         = worldToGrid(car.physics.startPosition[1].x, car.physics.startPosition[1].y)

\* C26 (as stated): a collision response is never applied to a car while its
\* position is still inside the tile it spawned on: whenever collision
\* checking is enabled (grace elapsed and latch set) and the car's grid cell
\* is its start cell, no revert or bounce occurs
C26_NoResponseOnStartCell ==
    (CheckedOnStartCell /\ lastTick.enabled) => ~car.physics.collided

\* ------------------------------------------------ claims: pressed keys
\* C29 (as stated): isKeyPressed(k), and isActionPressed for an action mapped
\* to k, return true when polled during the frame in which k is down and was
\* up in the previous frame, where each tick calls InputManager.update()
\* before the systems poll
C29_PressedOnFirstTick ==
    ticks > 0 =>
        /\ lastTick.justDown \subseteq lastTick.pressed
        /\ \A a \in Actions :
              keyMappings[a] \in lastTick.justDown => a \in lastTick.actionsPressed

\* ------------------------------------------- claims: direction of travel
\* the direction d is (cos, sin) of the rotation k, up to the rounding of the
\* fixed-point normalisation
Facing(d, k) == Abs(d.x - Cos(k)) <= Rounding /\ Abs(d.y - Sin(k)) <= Rounding

\* C27: after every CarInput.update on the car, the direction of its physics
\* is (cos(rotation), sin(rotation)) of the rotation left by that tick's
\* turning, whatever actions are held
C27_DirectionFollowsRotation ==
    ticks > 0 => Facing(lastTick.physicsIn.direction, lastTick.rotationIn)

\* a tick that turned the car with gas held too, and left it facing its new
\* rotation
C27_Witness ==
    /\ ticks > 0
    /\ lastTick.rotationIn # lastTick.rotationBefore
    /\ {"up", "left"} \subseteq lastTick.held
    /\ Facing(lastTick.physicsIn.direction, lastTick.rotationIn)

\* ------------------------------------------- claims: the back-reference
\* C28 (as stated): after addComponent(k, c) on the entity e the stored
\* component has c.entity = e, also when c was attached to another entity
\* before, so no component is held by an entity its back-reference disagrees
\* with
C28_BackReference ==
    /\ lastOp.op = "addComponent" => owner[lastOp.component] = lastOp.entity
    /\ \A e \in EntityIds, k \in Kinds :
          hasComponent(components, e, k) => owner[getComponent(components, e, k)] = e

\* ---------------------------------------------- claims: isAllLoaded
\* the keys loadImage has been asked for so far
Requested == {k \in LoadKeys : imageLoads[k] # <<>>}

\* no load is in flight
NoneInFlight ==
    \A k \in LoadKeys : \A n \in 1 .. Len(imageLoads[k]) : imageLoads[k][n] # "pending"

\* C31 (as stated): isAllLoaded() is true exactly when no load is in flight
\* and every asset requested so far is loaded, also after failures and
\* retries of failed keys
C31_AllLoadedExactly ==
    isAllLoaded(assetManager) <=>
        (NoneInFlight /\ Requested \subseteq assetManager.assets)

\* ------------------------------------------- claims: the asset counters
\* C38 (as stated): in every reachable state of the asset manager
\* loadedCount <= totalCount, under loadImage, load completions and failures,
\* removeAsset and clear(), clear() while loads are in flight included
C38_LoadedWithinTotal == assetManager.loadedCount <= assetManager.totalCount

\* ------------------------------------------- claims: leaving an obstacle
\* C32 (as stated): once collision checking is enabled, a car whose position
\* lies in an obstacle cell at the start of a MovementSystem tick lies in a
\* non-obstacle cell at the end of that tick
C32_LeavesObstacle ==
    (ticks > 0 /\ lastTick.enabled /\ lastTick.inObstacle) => ~InObstacle(car)

\* ------------------------------------------- claims: the velocity in step
\* the velocity that is the direction of the physics p times its speed
Heading(p) ==
    [x |-> TDiv(p.direction.x * p.speed, SCALE),
     y |-> TDiv(p.direction.y * p.speed, SCALE)]

\* C33 (as stated): when Transform.update integrates the position in a
\* MovementSystem tick, the transform's velocity is the physics direction
\* times the physics speed as it stands then, also on a tick whose collision
\* response changed the speed (Transform.update changes neither)
C33_VelocityMatchesSpeed ==
    ticks > 0 => car.transform.velocity = Heading(car.physics)

\* ------------------------------------------- claims: outstanding callbacks
\* C35 (as stated): under any interleaving of start(), stop() and frame
\* callbacks at most one frame callback is outstanding, requested and not yet
\* run, at any time
C35_OneCallbackOutstanding == requested + frameQueue <= 1

\* ------------------------------------------- claims: simulated time
\* C34 (as stated): for frame callbacks with non-decreasing timestamps after
\* start(), the sum of the delta times passed to Game.update never exceeds
\* the time elapsed between start() and the latest callback
C34_SimulatedWithinElapsed ==
    played.total > 0 => played.total <= lastCallback.stamp - played.since

\* ------------------------------------------- claims: the loop keeps going
\* C36 (as stated): whenever isRunning is true and no frame callback is
\* executing, a frame callback is outstanding, also after a scene or system
\* update or render threw
C36_RunningMeansScheduled == isRunning => requested + frameQueue >= 1

\* ------------------------------------------- claims: after the cleanup
\* C37 (as stated): after GameScene.cleanup() has run the engine's entity
\* collection never again holds a car created by that scene, however the
\* cleanup interleaves with the 100 ms timer and the imports of createEntities
\* (the scene's cars are the only entities of this game)
C37_NoCarsAfterCleanup == teardown.done => DOMAIN entities = {}

\* ------------------------------------------- claims: presses are observed
\* C39 (as stated): every press of a key mapped to an action is observed as
\* isActionDown(action) = true by at least one tick, however the keydown and
\* keyup events interleave with the InputManager.update() calls
C39_EveryPressObserved == pressWatch.missed = {}

====
